---------------------------- MODULE Spec2Model ----------------------------
(***************************************************************************)
(* Model of the Bitcoin node metrics exporter.                             *)
(*                                                                         *)
(* MetricsCollector::collect (btcnode-metrics/src/collector.rs) polls the  *)
(* node through the NodeClient trait (node.rs), one call after another,    *)
(* and writes each successful result into the gauges of BitcoinMetrics     *)
(* (metrics.rs).  A gauge value is an f64; the model holds it as an exact  *)
(* rational <<numerator, denominator>> in lowest terms.                    *)
(***************************************************************************)
EXTENDS Integers, Sequences, FiniteSets, TLC

(***************************************************************************)
(* Bounds of the model.                                                    *)
(***************************************************************************)
\* cycles (calls of collect) started in one behaviour
MaxCycles == 2
\* source calls that fail individually, over one behaviour, while the node is up
MaxFailures == 2
\* versions of the remote node's data (the node's state advances between cycles)
MaxGen == 2
\* length of the connection list in the specification that enumerates lists
MaxPeers == 3
\* calls the first of two overlapping cycles still has to make, at most, when the
\* second one starts
MaxOverlap == 3

(***************************************************************************)
(* f64 values as exact rationals.                                          *)
(***************************************************************************)
RECURSIVE GCD(_, _)
GCD(a, b) == IF b = 0 THEN a ELSE GCD(b, a % b)

Abs(x) == IF x < 0 THEN -x ELSE x

\* the rational n/d (d > 0) in lowest terms
Rat(n, d) == LET g == GCD(Abs(n), d) IN <<n \div g, d \div g>>

RatAdd(x, y) == Rat(x[1] * y[2] + y[1] * x[2], x[2] * y[2])

\* f64 / f64 where the divisor is an integer count converted with `as f64`
RatDivCount(x, k) == Rat(x[1], x[2] * k)

\* `v as f64` for an integer v (exact for every integer of the model)
ToF64(v) == <<v, 1>>

\* `if b { 1.0 } else { 0.0 }`
BoolToF64(b) == IF b THEN <<1, 1>> ELSE <<0, 1>>

\* Option<T>: None is the empty tuple, Some(v) the one-element tuple
None == <<>>
Some(v) == <<v>>
IsSome(o) == Len(o) = 1
Unwrap(o) == o[1]

(***************************************************************************)
(* Integer widths.  TLC's integers are 32 bits wide, so a u32 is held as   *)
(* two 16-bit limbs <<high, low>>, and the u64 byte counters of a peer are *)
(* counted in units of 2^40 bytes: u64 arithmetic on them is arithmetic    *)
(* modulo 2^24 units.                                                      *)
(***************************************************************************)
Limb == 2 ^ 16
U64Units == 2 ^ 24

\* `height as u32` for an i64 height: the low 32 bits
AsU32(h) == <<(h \div Limb) % Limb, h % Limb>>

\* wrapping u64 addition (Iterator::sum of u64 in a build without overflow checks)
U64Add(a, b) == (a + b) % U64Units

(***************************************************************************)
(* The gauges of BitcoinMetrics, by field name.                            *)
(***************************************************************************)
BlockchainSlots ==
    {"blocks", "headers", "difficulty", "verification_progress", "size_on_disk",
     "initial_block_download", "chain_pruned"}

MempoolSlots ==
    {"mempool_transactions", "mempool_bytes", "mempool_usage", "mempool_max_bytes",
     "mempool_min_fee", "mempool_total_fee", "mempool_min_relay_tx_fee",
     "mempool_incremental_relay_fee", "mempool_unbroadcast_count", "mempool_full_rbf"}

NetworkSlots ==
    {"connections", "connections_in", "connections_out", "network_active",
     "node_version", "protocol_version", "time_offset", "relay_fee", "incremental_fee"}

PeerSlots ==
    {"peer_count", "peers_inbound", "peers_outbound", "peers_total_bytes_sent",
     "peers_total_bytes_received", "peers_avg_ping_seconds"}

MiningSlots == {"network_hash_ps", "mining_pooled_tx"}

ChainTxSlots ==
    {"chain_tx_count", "chain_tx_rate", "chain_tx_window_block_count",
     "chain_tx_window_tx_count", "chain_tx_window_interval"}

NetTotalsSlots == {"net_total_bytes_received", "net_total_bytes_sent"}

FeeSlots ==
    {"fee_estimate_2_blocks", "fee_estimate_6_blocks", "fee_estimate_12_blocks",
     "fee_estimate_144_blocks"}

ChainTipsSlots == {"chain_tips_count"}

UptimeSlots == {"node_uptime_seconds"}

PercentileSlots ==
    {"latest_block_fee_rate_10th", "latest_block_fee_rate_25th",
     "latest_block_fee_rate_50th", "latest_block_fee_rate_75th",
     "latest_block_fee_rate_90th"}

BlockStatsSlots ==
    {"latest_block_txs", "latest_block_size", "latest_block_weight",
     "latest_block_avg_fee", "latest_block_avg_fee_rate", "latest_block_median_fee",
     "latest_block_min_fee", "latest_block_max_fee", "latest_block_min_fee_rate",
     "latest_block_max_fee_rate", "latest_block_total_fee", "latest_block_subsidy",
     "latest_block_inputs", "latest_block_outputs", "latest_block_segwit_txs",
     "latest_block_segwit_total_size", "latest_block_segwit_total_weight",
     "latest_block_total_out", "latest_block_utxo_increase"} \cup PercentileSlots

MetaSlots == {"scrape_duration_seconds", "scrape_error"}

Slots ==
    BlockchainSlots \cup MempoolSlots \cup NetworkSlots \cup PeerSlots \cup MiningSlots
    \cup ChainTxSlots \cup NetTotalsSlots \cup FeeSlots \cup ChainTipsSlots
    \cup UptimeSlots \cup BlockStatsSlots \cup MetaSlots

(***************************************************************************)
(* The registry: BitcoinMetrics::new registers one gauge per field, under  *)
(* the name given to register_gauge!.                                      *)
(***************************************************************************)
\* the name of each field's gauge, with bitcoin_version given to two of them
GaugeNameClash ==
    [blocks |-> "bitcoin_blocks", headers |-> "bitcoin_headers",
     difficulty |-> "bitcoin_difficulty",
     verification_progress |-> "bitcoin_verification_progress",
     size_on_disk |-> "bitcoin_size_on_disk_bytes",
     initial_block_download |-> "bitcoin_initial_block_download",
     chain_pruned |-> "bitcoin_chain_pruned",
     mempool_transactions |-> "bitcoin_mempool_transactions",
     mempool_bytes |-> "bitcoin_mempool_bytes",
     mempool_usage |-> "bitcoin_mempool_usage_bytes",
     mempool_max_bytes |-> "bitcoin_mempool_max_bytes",
     mempool_min_fee |-> "bitcoin_mempool_min_fee_btc_per_kvb",
     mempool_total_fee |-> "bitcoin_mempool_total_fee_btc",
     mempool_min_relay_tx_fee |-> "bitcoin_mempool_min_relay_tx_fee_btc_per_kvb",
     mempool_incremental_relay_fee |-> "bitcoin_mempool_incremental_relay_fee_btc_per_kvb",
     mempool_unbroadcast_count |-> "bitcoin_mempool_unbroadcast_count",
     mempool_full_rbf |-> "bitcoin_mempool_full_rbf",
     connections |-> "bitcoin_connections",
     connections_in |-> "bitcoin_connections_in",
     connections_out |-> "bitcoin_connections_out",
     network_active |-> "bitcoin_network_active",
     node_version |-> "bitcoin_version",
     protocol_version |-> "bitcoin_version",
     time_offset |-> "bitcoin_time_offset_seconds",
     relay_fee |-> "bitcoin_relay_fee_btc_per_kvb",
     incremental_fee |-> "bitcoin_incremental_fee_btc_per_kvb",
     peer_count |-> "bitcoin_peer_count",
     peers_inbound |-> "bitcoin_peers_inbound",
     peers_outbound |-> "bitcoin_peers_outbound",
     peers_total_bytes_sent |-> "bitcoin_peers_total_bytes_sent",
     peers_total_bytes_received |-> "bitcoin_peers_total_bytes_received",
     peers_avg_ping_seconds |-> "bitcoin_peers_avg_ping_seconds",
     network_hash_ps |-> "bitcoin_network_hash_per_second",
     mining_pooled_tx |-> "bitcoin_mining_pooled_transactions",
     chain_tx_count |-> "bitcoin_chain_tx_count",
     chain_tx_rate |-> "bitcoin_chain_tx_rate_per_second",
     chain_tx_window_block_count |-> "bitcoin_chain_tx_window_block_count",
     chain_tx_window_tx_count |-> "bitcoin_chain_tx_window_tx_count",
     chain_tx_window_interval |-> "bitcoin_chain_tx_window_interval_seconds",
     net_total_bytes_received |-> "bitcoin_net_total_bytes_received",
     net_total_bytes_sent |-> "bitcoin_net_total_bytes_sent",
     fee_estimate_2_blocks |-> "bitcoin_fee_estimate_2_blocks_btc_per_kvb",
     fee_estimate_6_blocks |-> "bitcoin_fee_estimate_6_blocks_btc_per_kvb",
     fee_estimate_12_blocks |-> "bitcoin_fee_estimate_12_blocks_btc_per_kvb",
     fee_estimate_144_blocks |-> "bitcoin_fee_estimate_144_blocks_btc_per_kvb",
     chain_tips_count |-> "bitcoin_chain_tips_count",
     node_uptime_seconds |-> "bitcoin_node_uptime_seconds",
     latest_block_txs |-> "bitcoin_latest_block_transactions",
     latest_block_size |-> "bitcoin_latest_block_size_bytes",
     latest_block_weight |-> "bitcoin_latest_block_weight",
     latest_block_avg_fee |-> "bitcoin_latest_block_avg_fee_sat",
     latest_block_avg_fee_rate |-> "bitcoin_latest_block_avg_fee_rate_sat_per_vb",
     latest_block_median_fee |-> "bitcoin_latest_block_median_fee_sat",
     latest_block_min_fee |-> "bitcoin_latest_block_min_fee_sat",
     latest_block_max_fee |-> "bitcoin_latest_block_max_fee_sat",
     latest_block_min_fee_rate |-> "bitcoin_latest_block_min_fee_rate_sat_per_vb",
     latest_block_max_fee_rate |-> "bitcoin_latest_block_max_fee_rate_sat_per_vb",
     latest_block_total_fee |-> "bitcoin_latest_block_total_fee_sat",
     latest_block_subsidy |-> "bitcoin_latest_block_subsidy_sat",
     latest_block_inputs |-> "bitcoin_latest_block_inputs",
     latest_block_outputs |-> "bitcoin_latest_block_outputs",
     latest_block_segwit_txs |-> "bitcoin_latest_block_segwit_transactions",
     latest_block_segwit_total_size |-> "bitcoin_latest_block_segwit_total_size_bytes",
     latest_block_segwit_total_weight |-> "bitcoin_latest_block_segwit_total_weight",
     latest_block_total_out |-> "bitcoin_latest_block_total_out_sat",
     latest_block_utxo_increase |-> "bitcoin_latest_block_utxo_increase",
     latest_block_fee_rate_10th |-> "bitcoin_latest_block_fee_rate_10th_percentile_sat_per_vb",
     latest_block_fee_rate_25th |-> "bitcoin_latest_block_fee_rate_25th_percentile_sat_per_vb",
     latest_block_fee_rate_50th |-> "bitcoin_latest_block_fee_rate_50th_percentile_sat_per_vb",
     latest_block_fee_rate_75th |-> "bitcoin_latest_block_fee_rate_75th_percentile_sat_per_vb",
     latest_block_fee_rate_90th |-> "bitcoin_latest_block_fee_rate_90th_percentile_sat_per_vb",
     scrape_duration_seconds |-> "bitcoin_collector_last_scrape_duration_seconds",
     scrape_error |-> "bitcoin_collector_last_scrape_error"]

\* the name each field's gauge is registered under
GaugeName ==
    [blocks |-> "bitcoin_blocks", headers |-> "bitcoin_headers",
     difficulty |-> "bitcoin_difficulty",
     verification_progress |-> "bitcoin_verification_progress",
     size_on_disk |-> "bitcoin_size_on_disk_bytes",
     initial_block_download |-> "bitcoin_initial_block_download",
     chain_pruned |-> "bitcoin_chain_pruned",
     mempool_transactions |-> "bitcoin_mempool_transactions",
     mempool_bytes |-> "bitcoin_mempool_bytes",
     mempool_usage |-> "bitcoin_mempool_usage_bytes",
     mempool_max_bytes |-> "bitcoin_mempool_max_bytes",
     mempool_min_fee |-> "bitcoin_mempool_min_fee_btc_per_kvb",
     mempool_total_fee |-> "bitcoin_mempool_total_fee_btc",
     mempool_min_relay_tx_fee |-> "bitcoin_mempool_min_relay_tx_fee_btc_per_kvb",
     mempool_incremental_relay_fee |-> "bitcoin_mempool_incremental_relay_fee_btc_per_kvb",
     mempool_unbroadcast_count |-> "bitcoin_mempool_unbroadcast_count",
     mempool_full_rbf |-> "bitcoin_mempool_full_rbf",
     connections |-> "bitcoin_connections",
     connections_in |-> "bitcoin_connections_in",
     connections_out |-> "bitcoin_connections_out",
     network_active |-> "bitcoin_network_active",
     node_version |-> "bitcoin_version",
     protocol_version |-> "bitcoin_protocol_version",
     time_offset |-> "bitcoin_time_offset_seconds",
     relay_fee |-> "bitcoin_relay_fee_btc_per_kvb",
     incremental_fee |-> "bitcoin_incremental_fee_btc_per_kvb",
     peer_count |-> "bitcoin_peer_count",
     peers_inbound |-> "bitcoin_peers_inbound",
     peers_outbound |-> "bitcoin_peers_outbound",
     peers_total_bytes_sent |-> "bitcoin_peers_total_bytes_sent",
     peers_total_bytes_received |-> "bitcoin_peers_total_bytes_received",
     peers_avg_ping_seconds |-> "bitcoin_peers_avg_ping_seconds",
     network_hash_ps |-> "bitcoin_network_hash_per_second",
     mining_pooled_tx |-> "bitcoin_mining_pooled_transactions",
     chain_tx_count |-> "bitcoin_chain_tx_count",
     chain_tx_rate |-> "bitcoin_chain_tx_rate_per_second",
     chain_tx_window_block_count |-> "bitcoin_chain_tx_window_block_count",
     chain_tx_window_tx_count |-> "bitcoin_chain_tx_window_tx_count",
     chain_tx_window_interval |-> "bitcoin_chain_tx_window_interval_seconds",
     net_total_bytes_received |-> "bitcoin_net_total_bytes_received",
     net_total_bytes_sent |-> "bitcoin_net_total_bytes_sent",
     fee_estimate_2_blocks |-> "bitcoin_fee_estimate_2_blocks_btc_per_kvb",
     fee_estimate_6_blocks |-> "bitcoin_fee_estimate_6_blocks_btc_per_kvb",
     fee_estimate_12_blocks |-> "bitcoin_fee_estimate_12_blocks_btc_per_kvb",
     fee_estimate_144_blocks |-> "bitcoin_fee_estimate_144_blocks_btc_per_kvb",
     chain_tips_count |-> "bitcoin_chain_tips_count",
     node_uptime_seconds |-> "bitcoin_node_uptime_seconds",
     latest_block_txs |-> "bitcoin_latest_block_transactions",
     latest_block_size |-> "bitcoin_latest_block_size_bytes",
     latest_block_weight |-> "bitcoin_latest_block_weight",
     latest_block_avg_fee |-> "bitcoin_latest_block_avg_fee_sat",
     latest_block_avg_fee_rate |-> "bitcoin_latest_block_avg_fee_rate_sat_per_vb",
     latest_block_median_fee |-> "bitcoin_latest_block_median_fee_sat",
     latest_block_min_fee |-> "bitcoin_latest_block_min_fee_sat",
     latest_block_max_fee |-> "bitcoin_latest_block_max_fee_sat",
     latest_block_min_fee_rate |-> "bitcoin_latest_block_min_fee_rate_sat_per_vb",
     latest_block_max_fee_rate |-> "bitcoin_latest_block_max_fee_rate_sat_per_vb",
     latest_block_total_fee |-> "bitcoin_latest_block_total_fee_sat",
     latest_block_subsidy |-> "bitcoin_latest_block_subsidy_sat",
     latest_block_inputs |-> "bitcoin_latest_block_inputs",
     latest_block_outputs |-> "bitcoin_latest_block_outputs",
     latest_block_segwit_txs |-> "bitcoin_latest_block_segwit_transactions",
     latest_block_segwit_total_size |-> "bitcoin_latest_block_segwit_total_size_bytes",
     latest_block_segwit_total_weight |-> "bitcoin_latest_block_segwit_total_weight",
     latest_block_total_out |-> "bitcoin_latest_block_total_out_sat",
     latest_block_utxo_increase |-> "bitcoin_latest_block_utxo_increase",
     latest_block_fee_rate_10th |-> "bitcoin_latest_block_fee_rate_10th_percentile_sat_per_vb",
     latest_block_fee_rate_25th |-> "bitcoin_latest_block_fee_rate_25th_percentile_sat_per_vb",
     latest_block_fee_rate_50th |-> "bitcoin_latest_block_fee_rate_50th_percentile_sat_per_vb",
     latest_block_fee_rate_75th |-> "bitcoin_latest_block_fee_rate_75th_percentile_sat_per_vb",
     latest_block_fee_rate_90th |-> "bitcoin_latest_block_fee_rate_90th_percentile_sat_per_vb",
     scrape_duration_seconds |-> "bitcoin_collector_last_scrape_duration_seconds",
     scrape_error |-> "bitcoin_collector_last_scrape_error"]

\* the fields in the order new registers their gauges
RegistrationOrder ==
    <<"blocks", "headers", "difficulty", "verification_progress",
      "size_on_disk", "initial_block_download", "chain_pruned",
      "mempool_transactions", "mempool_bytes", "mempool_usage",
      "mempool_max_bytes", "mempool_min_fee", "mempool_total_fee",
      "mempool_min_relay_tx_fee", "mempool_incremental_relay_fee",
      "mempool_unbroadcast_count", "mempool_full_rbf", "connections",
      "connections_in", "connections_out", "network_active", "node_version",
      "protocol_version", "time_offset", "relay_fee", "incremental_fee",
      "peer_count", "peers_inbound", "peers_outbound", "peers_total_bytes_sent",
      "peers_total_bytes_received", "peers_avg_ping_seconds", "network_hash_ps",
      "mining_pooled_tx", "chain_tx_count", "chain_tx_rate",
      "chain_tx_window_block_count", "chain_tx_window_tx_count",
      "chain_tx_window_interval", "net_total_bytes_received",
      "net_total_bytes_sent", "fee_estimate_2_blocks", "fee_estimate_6_blocks",
      "fee_estimate_12_blocks", "fee_estimate_144_blocks", "chain_tips_count",
      "node_uptime_seconds", "latest_block_txs", "latest_block_size",
      "latest_block_weight", "latest_block_avg_fee",
      "latest_block_avg_fee_rate", "latest_block_median_fee",
      "latest_block_min_fee", "latest_block_max_fee",
      "latest_block_min_fee_rate", "latest_block_max_fee_rate",
      "latest_block_total_fee", "latest_block_subsidy", "latest_block_inputs",
      "latest_block_outputs", "latest_block_segwit_txs",
      "latest_block_segwit_total_size", "latest_block_segwit_total_weight",
      "latest_block_total_out", "latest_block_utxo_increase",
      "latest_block_fee_rate_10th", "latest_block_fee_rate_25th",
      "latest_block_fee_rate_50th", "latest_block_fee_rate_75th",
      "latest_block_fee_rate_90th", "scrape_duration_seconds", "scrape_error">>

\* Registry::register: AlreadyReg when the name is taken, else the name is added
Register(reg, name) ==
    IF reg[1] = "err" \/ name \in reg[2] THEN <<"err">>
    ELSE <<"ok", reg[2] \cup {name}>>

\* the registrations of new, in order, each followed by `?`
RECURSIVE RegisterAll(_, _)
RegisterAll(reg, k) ==
    IF k > Len(RegistrationOrder) THEN reg
    ELSE RegisterAll(Register(reg, GaugeName[RegistrationOrder[k]]), k + 1)

\* Registry::new() and the registrations made by BitcoinMetrics::new
NewRegistry == RegisterAll(<<"ok", {}>>, 1)

(***************************************************************************)
(* The calls of the NodeClient trait that collect makes.                   *)
(***************************************************************************)
\* the loop's array in descending order of target
FeeTargetsDescending == <<144, 12, 6, 2>>

\* the confirmation targets of the fee-estimate loop, in loop order
FeeTargets == <<2, 6, 12, 144>>

\* the gauge of each entry of the loop's array
FeeGauges ==
    <<"fee_estimate_2_blocks", "fee_estimate_6_blocks", "fee_estimate_12_blocks",
      "fee_estimate_144_blocks">>

\* estimate_smart_fee(target), as the key of one call of a cycle
FeeCall(i) == <<"estimate_smart_fee", FeeTargets[i]>>

FeeCalls == {FeeCall(i) : i \in DOMAIN FeeTargets}

PlainCalls ==
    {<<"get_blockchain_info">>, <<"get_mempool_info">>, <<"get_network_info">>,
     <<"get_peer_info">>, <<"get_mining_info">>, <<"get_chain_tx_stats">>,
     <<"get_net_totals">>, <<"get_chain_tips">>, <<"uptime">>,
     <<"get_block_stats_by_height">>}

Calls == PlainCalls \cup FeeCalls

\* the calls of a cycle in the order collect makes them
Enumeration ==
    <<(<<"get_blockchain_info">>), (<<"get_mempool_info">>), (<<"get_network_info">>),
      (<<"get_peer_info">>), (<<"get_mining_info">>), (<<"get_chain_tx_stats">>),
      (<<"get_net_totals">>), (<<"estimate_smart_fee", 2>>),
      (<<"estimate_smart_fee", 6>>), (<<"estimate_smart_fee", 12>>),
      (<<"estimate_smart_fee", 144>>), (<<"get_chain_tips">>), (<<"uptime">>),
      (<<"get_block_stats_by_height">>)>>

(***************************************************************************)
(* The remote node.  Its data has a version, gen, that advances between    *)
(* cycles; every value depends on gen so that a stale slot differs from a  *)
(* fresh one.  Only the fields that collect reads are kept.                *)
(***************************************************************************)
\* GetBlockchainInfo
BlockchainInfoData(g) ==
    [blocks |-> 800000 + g,
     headers |-> 800010 + g,
     difficulty |-> Rat(539111 + g, 10),
     verification_progress |-> Rat(9990 + g, 10000),
     size_on_disk |-> 600000 + g,
     initial_block_download |-> (g % 2 = 0),
     pruned |-> (g % 2 = 1)]

\* GetMempoolInfo
MempoolInfoData(g) ==
    [size |-> 5000 + g,
     bytes |-> 3000000 + g,
     usage |-> 10000000 + g,
     max_mempool |-> 300000000 + g,
     mempool_min_fee |-> Rat(1 + g, 100000),
     total_fee |-> Rat(5 + g, 10),
     min_relay_tx_fee |-> Rat(3 + g, 100000),
     incremental_relay_fee |-> Rat(7 + g, 100000),
     unbroadcast_count |-> 3 + g,
     full_rbf |-> (g % 2 = 1)]

\* GetNetworkInfo
NetworkInfoData(g) ==
    [version |-> 250000 + g,
     protocol_version |-> 70016 + g,
     time_offset |-> -2 - g,
     connections |-> 125 + g,
     connections_in |-> 85 + g,
     connections_out |-> 40,
     network_active |-> (g % 2 = 1),
     relay_fee |-> Rat(1 + g, 1000),
     incremental_fee |-> Rat(9 + g, 1000)]

\* one PeerInfo of GetPeerInfo; ping_time is Option<f64>, the counters are u64
Peer(inbound, sent, recv, ping) ==
    [inbound |-> inbound, bytes_sent |-> sent, bytes_received |-> recv,
     ping_time |-> ping]

\* GetPeerInfo: two peers as in the mock node, then no peer, then three peers of
\* which one reports no ping
PeerInfoData(g) ==
    CASE g % 3 = 1 ->
           <<Peer(FALSE, 5, 10, Some(Rat(5, 100))), Peer(TRUE, 3, 6, Some(Rat(10, 100)))>>
      [] g % 3 = 2 -> <<>>
      [] OTHER ->
           <<Peer(TRUE, 9, 1, None),
             Peer(TRUE, 4, 2, Some(Rat(1, 4))),
             Peer(FALSE, 7, 3, Some(Rat(1, 2)))>>

\* MiningInfo (node.rs)
MiningInfoData(g) ==
    [network_hash_ps |-> Rat(45 + g, 2), pooled_tx |-> 5000 + g]

\* ChainTxStats (node.rs): tx_rate, window_tx_count and window_interval are Options
ChainTxStatsData(g) ==
    [tx_count |-> 900000 + g,
     tx_rate |-> IF g % 2 = 1 THEN Some(Rat(496 + g, 100)) ELSE None,
     window_block_count |-> 4032 + g,
     window_tx_count |-> IF g % 2 = 1 THEN Some(12000 + g) ELSE None,
     window_interval |-> IF g % 3 # 2 THEN Some(2419200 + g) ELSE None]

\* GetNetTotals
NetTotalsData(g) ==
    [total_bytes_received |-> 5000000 + g, total_bytes_sent |-> 3000000 + g]

\* EstimateSmartFee for the i-th target; fee_rate is an Option<f64>, absent when
\* the node has too little data for the target
EstimateSmartFeeData(g, i) ==
    [fee_rate |-> IF g % 2 = 0 /\ i = 4 THEN None ELSE Some(Rat(30 - 5 * i + g, 100000)),
     blocks |-> FeeTargets[i]]

\* GetChainTips: only the length is read
ChainTipsData(g) ==
    IF g % 2 = 1 THEN <<[height |-> 800000 + g], [height |-> 799998]>>
    ELSE <<[height |-> 800000 + g]>>

\* uptime
UptimeData(g) == 86400 + g

\* fee_rate_percentiles: [i64; 5]
PercentilesData(g) ==
    IF g % 2 = 1 THEN <<5, 10, 20, 50, 100>> ELSE <<7, 11, 23, 53, 101>>

\* GetBlockStats
BlockStatsData(g) ==
    [txs |-> 2500 + g,
     total_size |-> 2000000 + g,
     total_weight |-> 3993000 + g,
     average_fee |-> 15000 + g,
     average_fee_rate |-> 25 + g,
     median_fee |-> 10000 + g,
     minimum_fee |-> 500 + g,
     max_fee |-> 500000 + g,
     minimum_fee_rate |-> 1 + g,
     max_fee_rate |-> 200 + g,
     total_fee |-> 37500000 + g,
     subsidy |-> 625000000 + g,
     inputs |-> 6000 + g,
     outputs |-> 8000 + g,
     segwit_txs |-> 2000 + g,
     segwit_total_size |-> 1500000 + g,
     segwit_total_weight |-> 3000000 + g,
     total_out |-> 500000000 + g,
     utxo_increase |-> 510 + g,
     fee_rate_percentiles |-> PercentilesData(g)]

\* everything the node answers at version g
\* the variants of Error
ErrorVariants == {"Rpc", "Prometheus", "Config"}

\* the variants that BitcoinNode returns: `?` converts every error of the RPC client
\* into Error::Rpc
BitcoinNodeErrors == {"Rpc"}

NodeData(g) ==
    [gen |-> g,
     errors |-> BitcoinNodeErrors,
     blockchain_info |-> BlockchainInfoData(g),
     mempool_info |-> MempoolInfoData(g),
     network_info |-> NetworkInfoData(g),
     peer_info |-> PeerInfoData(g),
     mining_info |-> MiningInfoData(g),
     chain_tx_stats |-> ChainTxStatsData(g),
     net_totals |-> NetTotalsData(g),
     smart_fee |-> [i \in DOMAIN FeeTargets |-> EstimateSmartFeeData(g, i)],
     chain_tips |-> ChainTipsData(g),
     uptime |-> UptimeData(g),
     block_stats |-> BlockStatsData(g)]

(***************************************************************************)
(* What collect writes for each successful call: a function from the       *)
(* gauges it sets to the values it sets them to.                           *)
(***************************************************************************)
\* no gauge set
NoWrites == [s \in {} |-> <<0, 1>>]

\* Ok(info) arm of get_blockchain_info
BlockchainInfoWrites(info) ==
    [blocks |-> ToF64(info.blocks),
     headers |-> ToF64(info.headers),
     difficulty |-> info.difficulty,
     verification_progress |-> info.verification_progress,
     size_on_disk |-> ToF64(info.size_on_disk),
     initial_block_download |-> BoolToF64(info.initial_block_download),
     chain_pruned |-> BoolToF64(info.pruned)]

\* Ok(info) arm of get_mempool_info
MempoolInfoWrites(info) ==
    [mempool_transactions |-> ToF64(info.size),
     mempool_bytes |-> ToF64(info.bytes),
     mempool_usage |-> ToF64(info.usage),
     mempool_max_bytes |-> ToF64(info.max_mempool),
     mempool_min_fee |-> info.mempool_min_fee,
     mempool_total_fee |-> info.total_fee,
     mempool_min_relay_tx_fee |-> info.min_relay_tx_fee,
     mempool_incremental_relay_fee |-> info.incremental_relay_fee,
     mempool_unbroadcast_count |-> ToF64(info.unbroadcast_count),
     mempool_full_rbf |-> BoolToF64(info.full_rbf)]

\* Ok(info) arm of get_network_info
NetworkInfoWrites(info) ==
    [connections |-> ToF64(info.connections),
     connections_in |-> ToF64(info.connections_in),
     connections_out |-> ToF64(info.connections_out),
     network_active |-> BoolToF64(info.network_active),
     node_version |-> ToF64(info.version),
     protocol_version |-> ToF64(info.protocol_version),
     time_offset |-> ToF64(info.time_offset),
     relay_fee |-> info.relay_fee,
     incremental_fee |-> info.incremental_fee]

\* the filter negated
InboundCountNegated(peers) ==
    LET count[n \in 0..Len(peers)] ==
            IF n = 0 THEN 0
            ELSE count[n - 1] + (IF peers[n].inbound THEN 0 ELSE 1)
    IN  count[Len(peers)]

\* peers.0.iter().filter(|p| p.inbound).count()
InboundCount(peers) ==
    LET count[n \in 0..Len(peers)] ==
            IF n = 0 THEN 0
            ELSE count[n - 1] + (IF peers[n].inbound THEN 1 ELSE 0)
    IN  count[Len(peers)]

\* peers.0.iter().map(|p| p.bytes_sent).sum() in u64
TotalSent(peers) ==
    LET sum[n \in 0..Len(peers)] ==
            IF n = 0 THEN 0 ELSE U64Add(sum[n - 1], peers[n].bytes_sent)
    IN  sum[Len(peers)]

\* peers.0.iter().map(|p| p.bytes_received).sum() in u64
TotalRecv(peers) ==
    LET sum[n \in 0..Len(peers)] ==
            IF n = 0 THEN 0 ELSE U64Add(sum[n - 1], peers[n].bytes_received)
    IN  sum[Len(peers)]

\* peers.0.iter().filter_map(|p| p.ping_time).sum() in f64
PingSum(peers) ==
    LET sum[n \in 0..Len(peers)] ==
            IF n = 0 THEN <<0, 1>>
            ELSE IF IsSome(peers[n].ping_time)
                 THEN RatAdd(sum[n - 1], Unwrap(peers[n].ping_time))
                 ELSE sum[n - 1]
    IN  sum[Len(peers)]

\* every record counted, with or without a ping
PingCountAll(peers) == Len(peers)

\* peers.0.iter().filter(|p| p.ping_time.is_some()).count()
PingCount(peers) ==
    LET count[n \in 0..Len(peers)] ==
            IF n = 0 THEN 0
            ELSE count[n - 1] + (IF IsSome(peers[n].ping_time) THEN 1 ELSE 0)
    IN  count[Len(peers)]

\* if ping_count > 0 { ping_sum / ping_count as f64 } else { 0.0 }
AvgPing(ping_sum, ping_count) ==
    IF ping_count > 0 THEN RatDivCount(ping_sum, ping_count) ELSE <<0, 1>>

\* Ok(peers) arm of get_peer_info
PeerInfoWrites(peers) ==
    LET total == Len(peers)
        inbound == InboundCount(peers)
        outbound == total - inbound
        total_sent == TotalSent(peers)
        total_recv == TotalRecv(peers)
        ping_sum == PingSum(peers)
        ping_count == PingCount(peers)
        avg_ping == AvgPing(ping_sum, ping_count)
    IN  [peer_count |-> ToF64(total),
         peers_inbound |-> ToF64(inbound),
         peers_outbound |-> ToF64(outbound),
         peers_total_bytes_sent |-> ToF64(total_sent),
         peers_total_bytes_received |-> ToF64(total_recv),
         peers_avg_ping_seconds |-> avg_ping]

\* an Ok arm of get_mining_info that also sets the difficulty gauge
MiningInfoWritesDifficulty(info) ==
    [network_hash_ps |-> info.network_hash_ps,
     mining_pooled_tx |-> ToF64(info.pooled_tx),
     difficulty |-> ToF64(info.pooled_tx)]

\* Ok(info) arm of get_mining_info
MiningInfoWrites(info) ==
    [network_hash_ps |-> info.network_hash_ps,
     mining_pooled_tx |-> ToF64(info.pooled_tx)]

\* Ok(info) arm of get_chain_tx_stats: the three `if let Some` set nothing on None
ChainTxStatsWrites(info) ==
    [chain_tx_count |-> ToF64(info.tx_count),
     chain_tx_window_block_count |-> ToF64(info.window_block_count)]
    @@ (IF IsSome(info.tx_rate)
        THEN [chain_tx_rate |-> Unwrap(info.tx_rate)] ELSE NoWrites)
    @@ (IF IsSome(info.window_tx_count)
        THEN [chain_tx_window_tx_count |-> ToF64(Unwrap(info.window_tx_count))]
        ELSE NoWrites)
    @@ (IF IsSome(info.window_interval)
        THEN [chain_tx_window_interval |-> ToF64(Unwrap(info.window_interval))]
        ELSE NoWrites)

\* the two totals the wrong way round
NetTotalsWritesSwapped(info) ==
    [net_total_bytes_received |-> ToF64(info.total_bytes_sent),
     net_total_bytes_sent |-> ToF64(info.total_bytes_received)]

\* Ok(info) arm of get_net_totals
NetTotalsWrites(info) ==
    [net_total_bytes_received |-> ToF64(info.total_bytes_received),
     net_total_bytes_sent |-> ToF64(info.total_bytes_sent)]

\* an absent fee rate written as 0
SmartFeeWritesZeroOnAbsent(i, est) ==
    IF IsSome(est.fee_rate)
    THEN [s \in {FeeGauges[i]} |-> Unwrap(est.fee_rate)]
    ELSE [s \in {FeeGauges[i]} |-> <<0, 1>>]

\* Ok(est) arm of estimate_smart_fee for the i-th entry of the loop's array
SmartFeeWrites(i, est) ==
    IF IsSome(est.fee_rate)
    THEN [s \in {FeeGauges[i]} |-> Unwrap(est.fee_rate)]
    ELSE NoWrites

\* Ok(tips) arm of get_chain_tips
ChainTipsWrites(tips) == [chain_tips_count |-> ToF64(Len(tips))]

\* Ok(seconds) arm of uptime
UptimeWrites(seconds) == [node_uptime_seconds |-> ToF64(seconds)]

\* the 25th and 50th percentiles the wrong way round
PercentileWritesSwapped(stats) ==
    [latest_block_fee_rate_10th |-> ToF64(stats.fee_rate_percentiles[1]),
     latest_block_fee_rate_25th |-> ToF64(stats.fee_rate_percentiles[3]),
     latest_block_fee_rate_50th |-> ToF64(stats.fee_rate_percentiles[2]),
     latest_block_fee_rate_75th |-> ToF64(stats.fee_rate_percentiles[4]),
     latest_block_fee_rate_90th |-> ToF64(stats.fee_rate_percentiles[5])]

\* the five percentile gauges, by index into fee_rate_percentiles (0-based in the
\* source, 1-based here)
PercentileWrites(stats) ==
    [latest_block_fee_rate_10th |-> ToF64(stats.fee_rate_percentiles[1]),
     latest_block_fee_rate_25th |-> ToF64(stats.fee_rate_percentiles[2]),
     latest_block_fee_rate_50th |-> ToF64(stats.fee_rate_percentiles[3]),
     latest_block_fee_rate_75th |-> ToF64(stats.fee_rate_percentiles[4]),
     latest_block_fee_rate_90th |-> ToF64(stats.fee_rate_percentiles[5])]

\* Ok(stats) arm of get_block_stats_by_height
BlockStatsWrites(stats) ==
    [latest_block_txs |-> ToF64(stats.txs),
     latest_block_size |-> ToF64(stats.total_size),
     latest_block_weight |-> ToF64(stats.total_weight),
     latest_block_avg_fee |-> ToF64(stats.average_fee),
     latest_block_avg_fee_rate |-> ToF64(stats.average_fee_rate),
     latest_block_median_fee |-> ToF64(stats.median_fee),
     latest_block_min_fee |-> ToF64(stats.minimum_fee),
     latest_block_max_fee |-> ToF64(stats.max_fee),
     latest_block_min_fee_rate |-> ToF64(stats.minimum_fee_rate),
     latest_block_max_fee_rate |-> ToF64(stats.max_fee_rate),
     latest_block_total_fee |-> ToF64(stats.total_fee),
     latest_block_subsidy |-> ToF64(stats.subsidy),
     latest_block_inputs |-> ToF64(stats.inputs),
     latest_block_outputs |-> ToF64(stats.outputs),
     latest_block_segwit_txs |-> ToF64(stats.segwit_txs),
     latest_block_segwit_total_size |-> ToF64(stats.segwit_total_size),
     latest_block_segwit_total_weight |-> ToF64(stats.segwit_total_weight),
     latest_block_total_out |-> ToF64(stats.total_out),
     latest_block_utxo_increase |-> ToF64(stats.utxo_increase)]
    @@ PercentileWrites(stats)

(***************************************************************************)
(* State.                                                                  *)
(***************************************************************************)
\* the threads that run collect (spawn_blocking gives each request its own)
Workers == {1, 2}

VARIABLES
    metrics,       \* BitcoinMetrics: the value of every gauge
    node,          \* the remote node's data
    node_up,       \* whether the node answers at all
    clock,         \* the monotonic clock read by Instant::now()
    pc,            \* per worker: where it is in collect
    fee_idx,       \* per worker: index of the fee-estimate loop
    start,         \* per worker: `start`
    had_error,     \* per worker: `had_error`
    block_height,  \* per worker: `block_height`, an Option<i64>
    calls,         \* per worker: the calls its cycle has made so far, in order
    results,       \* per worker: what each call of its cycle returned
    written,       \* per worker: the gauges its cycle has set
    before,        \* per worker: the gauges' values when its cycle started
    prev,          \* per worker: what each call of its previous cycle returned
    last_good,     \* per gauge: the last value an Ok arm set it to (0 if none has)
    cycles,        \* cycles started so far
    failures,      \* individual call failures so far
    writer,        \* per gauge: the worker whose Gauge::set was the last (0 if none)
    registry,      \* the Registry: the names registered, or the error of new
    http,          \* per worker: the /metrics request it serves and its response
    health,        \* the last response of /health, if any
    alive          \* whether the process is running

vars ==
    <<metrics, node, node_up, clock, pc, fee_idx, start, had_error, block_height,
      calls, results, written, before, prev, last_good, cycles, failures,
      writer, registry, http, health, alive>>

locals == <<fee_idx, start, block_height>>
env == <<node, node_up, cycles>>
history == <<calls, results, written, before, prev, last_good>>
web == <<registry, http, health, alive>>

\* a gauge set only while it still holds its initial 0: the first write wins
SetAllIfUnset(m, w) ==
    [s \in DOMAIN m |-> IF s \in DOMAIN w /\ m[s] = <<0, 1>> THEN w[s] ELSE m[s]]

\* the uptime gauge incremented by the reading (Gauge::add) instead of set to it
SetAllAdd(m, w) ==
    [s \in DOMAIN m |->
        IF s \notin DOMAIN w THEN m[s]
        ELSE IF s = "node_uptime_seconds" THEN RatAdd(m[s], w[s])
        ELSE w[s]]

\* Gauge::set on every gauge of w
SetAll(m, w) == [s \in DOMAIN m |-> IF s \in DOMAIN w THEN w[s] ELSE m[s]]

\* what a call has returned in the current cycle
NotCalled == <<"none">>
Failed(e) == <<"err", e>>
Returned(v) == <<"ok", v>>

\* a worker that serves no /metrics request
NoRequest == <<"none">>

\* who set the gauges last, after worker p set those of w
SetBy(wr, p, w) == [s \in DOMAIN wr |-> IF s \in DOMAIN w THEN p ELSE wr[s]]

\* BitcoinMetrics::new: every gauge starts at 0
NewMetrics == [s \in Slots |-> <<0, 1>>]

\* MetricsCollector::new and the state of the threads before any request
InitWorkers ==
    /\ metrics = NewMetrics
    /\ node_up = TRUE
    /\ clock = 0
    /\ pc = [p \in Workers |-> "idle"]
    /\ fee_idx = [p \in Workers |-> 1]
    /\ start = [p \in Workers |-> 0]
    /\ had_error = [p \in Workers |-> FALSE]
    /\ block_height = [p \in Workers |-> None]
    /\ calls = [p \in Workers |-> <<>>]
    /\ results = [p \in Workers |-> [c \in Calls |-> NotCalled]]
    /\ written = [p \in Workers |-> {}]
    /\ before = [p \in Workers |-> NewMetrics]
    /\ prev = [p \in Workers |-> [c \in Calls |-> NotCalled]]
    /\ last_good = NewMetrics
    /\ writer = [s \in Slots |-> 0]
    /\ registry = NewRegistry
    /\ http = [p \in Workers |-> NoRequest]
    /\ health = None
    /\ alive = (NewRegistry[1] = "ok")

Init ==
    /\ InitWorkers
    /\ node = NodeData(1)
    /\ cycles = 0
    /\ failures = 0

\* no worker is inside collect
Quiet == \A p \in Workers : pc[p] \in {"idle", "done"}

(***************************************************************************)
(* The node's own steps, between cycles.                                   *)
(***************************************************************************)
\* the chain and the node's counters move on
NodeAdvance ==
    /\ Quiet
    /\ cycles < MaxCycles
    /\ node.gen < MaxGen
    /\ node' = [NodeData(node.gen + 1) EXCEPT !.errors = node.errors]
    /\ UNCHANGED <<metrics, node_up, clock, pc, locals, had_error, history, cycles,
                   failures, writer, web>>

\* the node stops answering: every call fails until it is back
NodeStop ==
    /\ Quiet
    /\ cycles < MaxCycles
    /\ node_up
    /\ node_up' = FALSE
    /\ UNCHANGED <<metrics, node, clock, pc, locals, had_error, history, cycles,
                   failures, writer, web>>

NodeRestart ==
    /\ Quiet
    /\ cycles < MaxCycles
    /\ ~node_up
    /\ node_up' = TRUE
    /\ UNCHANGED <<metrics, node, clock, pc, locals, had_error, history, cycles,
                   failures, writer, web>>

(***************************************************************************)
(* collect, one step per call of the node.                                 *)
(***************************************************************************)
\* a cycle that follows a failed one makes no call at all
StartCycleBackoff(p) ==
    /\ pc[p] \in {"idle", "done"}
    /\ cycles < MaxCycles
    /\ cycles' = cycles + 1
    /\ start' = [start EXCEPT ![p] = clock]
    /\ had_error' = [had_error EXCEPT ![p] = FALSE]
    /\ block_height' = [block_height EXCEPT ![p] = None]
    /\ fee_idx' = [fee_idx EXCEPT ![p] = 1]
    /\ calls' = [calls EXCEPT ![p] = <<>>]
    /\ results' = [results EXCEPT ![p] = [c \in Calls |-> NotCalled]]
    /\ written' = [written EXCEPT ![p] = {}]
    /\ before' = [before EXCEPT ![p] = metrics]
    /\ prev' = [prev EXCEPT ![p] = results[p]]
    /\ pc' = [pc EXCEPT ![p] =
                IF metrics["scrape_error"] = <<1, 1>> THEN "finish"
                ELSE "get_blockchain_info"]
    /\ UNCHANGED <<metrics, node, node_up, clock, last_good, failures, writer>>

\* collect's first three statements
StartCycle(p) ==
    /\ pc[p] \in {"idle", "done"}
    /\ cycles < MaxCycles
    /\ cycles' = cycles + 1
    /\ start' = [start EXCEPT ![p] = clock]
    /\ had_error' = [had_error EXCEPT ![p] = FALSE]
    /\ block_height' = [block_height EXCEPT ![p] = None]
    /\ fee_idx' = [fee_idx EXCEPT ![p] = 1]
    /\ calls' = [calls EXCEPT ![p] = <<>>]
    /\ results' = [results EXCEPT ![p] = [c \in Calls |-> NotCalled]]
    /\ written' = [written EXCEPT ![p] = {}]
    /\ before' = [before EXCEPT ![p] = metrics]
    /\ prev' = [prev EXCEPT ![p] = results[p]]
    /\ pc' = [pc EXCEPT ![p] = "get_blockchain_info"]
    /\ UNCHANGED <<metrics, node, node_up, clock, last_good, failures, writer>>

\* an Err arm that resets the gauges of its call to 0
ErrWritesSentinel(slots) == [s \in slots |-> <<0, 1>>]

\* what an Err(e) arm writes into the gauges of its call: nothing
ErrWrites(slots) == NoWrites

\* had_error left as it is in an Err arm
ErrFlagForgotten(flag) == flag

\* what an Err(e) arm does to had_error
ErrFlag(flag) == TRUE

\* what an Ok arm does to had_error: nothing
OkFlag(flag) == flag

\* the Ok arm of a call that returned Ok(info) sets the gauges w
ArmOk(p, key, info, w) ==
    /\ node_up
    /\ \E set \in {w} :
           /\ metrics' = SetAll(metrics, set)
           /\ written' = [written EXCEPT ![p] = @ \cup DOMAIN set]
           /\ last_good' = SetAll(last_good, set)
           /\ writer' = SetBy(writer, p, set)
    /\ results' = [results EXCEPT ![p][key] = Returned(info)]
    /\ had_error' = [had_error EXCEPT ![p] = OkFlag(@)]
    /\ clock' = clock + 1
    /\ UNCHANGED failures

\* a call of the node returns Ok(info) and the Ok arm sets the gauges w
CallOk(p, key, logged, info, w) ==
    /\ ArmOk(p, key, info, w)
    /\ calls' = [calls EXCEPT ![p] = Append(@, logged)]

\* the Err arm marking the cycle failed for an RPC error only
CallErrByVariant(p, key, logged, slots) ==
    /\ ~node_up \/ failures < MaxFailures
    /\ failures' = IF node_up THEN failures + 1 ELSE failures
    /\ metrics' = SetAll(metrics, ErrWrites(slots))
    /\ written' = [written EXCEPT ![p] = @ \cup DOMAIN ErrWrites(slots)]
    /\ writer' = SetBy(writer, p, ErrWrites(slots))
    /\ \E e \in node.errors :
           /\ results' = [results EXCEPT ![p][key] = Failed(e)]
           /\ had_error' = [had_error EXCEPT ![p] = IF e = "Rpc" THEN ErrFlag(@) ELSE @]
    /\ calls' = [calls EXCEPT ![p] = Append(@, logged)]
    /\ clock' = clock + 1
    /\ UNCHANGED last_good

\* the Err arm of a call that returned Err(e)
ArmErr(p, key, slots) ==
    /\ ~node_up \/ failures < MaxFailures
    /\ failures' = IF node_up THEN failures + 1 ELSE failures
    /\ metrics' = SetAll(metrics, ErrWrites(slots))
    /\ written' = [written EXCEPT ![p] = @ \cup DOMAIN ErrWrites(slots)]
    /\ writer' = SetBy(writer, p, ErrWrites(slots))
    /\ \E e \in node.errors : results' = [results EXCEPT ![p][key] = Failed(e)]
    /\ had_error' = [had_error EXCEPT ![p] = ErrFlag(@)]
    /\ clock' = clock + 1
    /\ UNCHANGED last_good

\* a call of the node returns Err(e) and the Err arm runs
CallErr(p, key, logged, slots) ==
    /\ ArmErr(p, key, slots)
    /\ calls' = [calls EXCEPT ![p] = Append(@, logged)]

\* block_height after the Ok arm of get_blockchain_info
HeightOnOk(info) == Some(info.blocks)

\* the height last written to the blocks gauge, used when the call fails
HeightOnErrRemembered(h) == Some(metrics["blocks"][1])

\* block_height after the Err arm of get_blockchain_info: still None
HeightOnErr(h) == h

GetBlockchainInfo(p) ==
    /\ pc[p] = "get_blockchain_info"
    /\ \/ /\ CallOk(p, <<"get_blockchain_info">>, <<"get_blockchain_info">>,
                    node.blockchain_info, BlockchainInfoWrites(node.blockchain_info))
          /\ block_height' = [block_height EXCEPT ![p] = HeightOnOk(node.blockchain_info)]
       \/ /\ CallErr(p, <<"get_blockchain_info">>, <<"get_blockchain_info">>,
                     BlockchainSlots)
          /\ block_height' = [block_height EXCEPT ![p] = HeightOnErr(@)]
    /\ pc' = [pc EXCEPT ![p] = "get_mempool_info"]
    /\ UNCHANGED <<env, web, fee_idx, start, before, prev>>

\* the Err arm returns from collect
GetMempoolInfoAbort(p) ==
    /\ pc[p] = "get_mempool_info"
    /\ \/ /\ CallOk(p, <<"get_mempool_info">>, <<"get_mempool_info">>,
                    node.mempool_info, MempoolInfoWrites(node.mempool_info))
          /\ pc' = [pc EXCEPT ![p] = "get_network_info"]
       \/ /\ CallErr(p, <<"get_mempool_info">>, <<"get_mempool_info">>, MempoolSlots)
          /\ pc' = [pc EXCEPT ![p] = "finish"]
    /\ UNCHANGED <<env, web, locals, before, prev>>

GetMempoolInfo(p) ==
    /\ pc[p] = "get_mempool_info"
    /\ \/ CallOk(p, <<"get_mempool_info">>, <<"get_mempool_info">>,
                 node.mempool_info, MempoolInfoWrites(node.mempool_info))
       \/ CallErr(p, <<"get_mempool_info">>, <<"get_mempool_info">>, MempoolSlots)
    /\ pc' = [pc EXCEPT ![p] = "get_network_info"]
    /\ UNCHANGED <<env, web, locals, before, prev>>

GetNetworkInfo(p) ==
    /\ pc[p] = "get_network_info"
    /\ \/ CallOk(p, <<"get_network_info">>, <<"get_network_info">>,
                 node.network_info, NetworkInfoWrites(node.network_info))
       \/ CallErr(p, <<"get_network_info">>, <<"get_network_info">>, NetworkSlots)
    /\ pc' = [pc EXCEPT ![p] = "get_peer_info"]
    /\ UNCHANGED <<env, web, locals, before, prev>>

GetPeerInfo(p) ==
    /\ pc[p] = "get_peer_info"
    /\ \/ CallOk(p, <<"get_peer_info">>, <<"get_peer_info">>,
                 node.peer_info, PeerInfoWrites(node.peer_info))
       \/ CallErr(p, <<"get_peer_info">>, <<"get_peer_info">>, PeerSlots)
    /\ pc' = [pc EXCEPT ![p] = "get_mining_info"]
    /\ UNCHANGED <<env, web, locals, before, prev>>

GetMiningInfo(p) ==
    /\ pc[p] = "get_mining_info"
    /\ \/ CallOk(p, <<"get_mining_info">>, <<"get_mining_info">>,
                 node.mining_info, MiningInfoWrites(node.mining_info))
       \/ CallErr(p, <<"get_mining_info">>, <<"get_mining_info">>, MiningSlots)
    /\ pc' = [pc EXCEPT ![p] = "get_chain_tx_stats"]
    /\ UNCHANGED <<env, web, locals, before, prev>>

GetChainTxStats(p) ==
    /\ pc[p] = "get_chain_tx_stats"
    /\ \/ CallOk(p, <<"get_chain_tx_stats">>, <<"get_chain_tx_stats">>,
                 node.chain_tx_stats, ChainTxStatsWrites(node.chain_tx_stats))
       \/ CallErr(p, <<"get_chain_tx_stats">>, <<"get_chain_tx_stats">>, ChainTxSlots)
    /\ pc' = [pc EXCEPT ![p] = "get_net_totals"]
    /\ UNCHANGED <<env, web, locals, before, prev>>

GetNetTotals(p) ==
    /\ pc[p] = "get_net_totals"
    /\ \/ CallOk(p, <<"get_net_totals">>, <<"get_net_totals">>,
                 node.net_totals, NetTotalsWrites(node.net_totals))
       \/ CallErr(p, <<"get_net_totals">>, <<"get_net_totals">>, NetTotalsSlots)
    /\ pc' = [pc EXCEPT ![p] = "estimate_smart_fee"]
    /\ UNCHANGED <<env, web, locals, before, prev>>

\* the loop left at the first Err
EstimateSmartFeeAbort(p) ==
    /\ pc[p] = "estimate_smart_fee"
    /\ LET i == fee_idx[p] IN
       \/ /\ CallOk(p, FeeCall(i), FeeCall(i), node.smart_fee[i],
                    SmartFeeWrites(i, node.smart_fee[i]))
          /\ IF i < Len(FeeTargets)
             THEN /\ fee_idx' = [fee_idx EXCEPT ![p] = i + 1]
                  /\ pc' = pc
             ELSE /\ fee_idx' = fee_idx
                  /\ pc' = [pc EXCEPT ![p] = "get_chain_tips"]
       \/ /\ CallErr(p, FeeCall(i), FeeCall(i), {FeeGauges[i]})
          /\ fee_idx' = fee_idx
          /\ pc' = [pc EXCEPT ![p] = "get_chain_tips"]
    /\ UNCHANGED <<env, web, start, block_height, before, prev>>

\* one iteration of the loop over the (target, gauge) array
EstimateSmartFee(p) ==
    /\ pc[p] = "estimate_smart_fee"
    /\ LET i == fee_idx[p] IN
       /\ \/ CallOk(p, FeeCall(i), FeeCall(i), node.smart_fee[i],
                    SmartFeeWrites(i, node.smart_fee[i]))
          \/ CallErr(p, FeeCall(i), FeeCall(i), {FeeGauges[i]})
       /\ IF i < Len(FeeTargets)
          THEN /\ fee_idx' = [fee_idx EXCEPT ![p] = i + 1]
               /\ pc' = pc
          ELSE /\ fee_idx' = fee_idx
               /\ pc' = [pc EXCEPT ![p] = "get_chain_tips"]
    /\ UNCHANGED <<env, web, start, block_height, before, prev>>

\* the call made again after an Err
GetChainTipsRetry(p) ==
    /\ pc[p] = "get_chain_tips"
    /\ \/ /\ CallOk(p, <<"get_chain_tips">>, <<"get_chain_tips">>,
                    node.chain_tips, ChainTipsWrites(node.chain_tips))
          /\ pc' = [pc EXCEPT ![p] = "uptime"]
       \/ /\ CallErr(p, <<"get_chain_tips">>, <<"get_chain_tips">>, ChainTipsSlots)
          /\ pc' = pc
    /\ UNCHANGED <<env, web, locals, before, prev>>

GetChainTips(p) ==
    /\ pc[p] = "get_chain_tips"
    /\ \/ CallOk(p, <<"get_chain_tips">>, <<"get_chain_tips">>,
                 node.chain_tips, ChainTipsWrites(node.chain_tips))
       \/ CallErr(p, <<"get_chain_tips">>, <<"get_chain_tips">>, ChainTipsSlots)
    /\ pc' = [pc EXCEPT ![p] = "uptime"]
    /\ UNCHANGED <<env, web, locals, before, prev>>

\* the block-statistics step never taken
StatsNeverAttempted(h) == FALSE

\* `if let Some(height) = block_height`
StatsAttempted(h) == IsSome(h)

\* the block-statistics step taken only in a cycle without an error so far
UptimeSkipsStatsAfterError(p) ==
    /\ pc[p] = "uptime"
    /\ \/ CallOk(p, <<"uptime">>, <<"uptime">>, node.uptime, UptimeWrites(node.uptime))
       \/ CallErr(p, <<"uptime">>, <<"uptime">>, UptimeSlots)
    /\ pc' = [pc EXCEPT ![p] =
                IF StatsAttempted(block_height[p]) /\ ~had_error'[p]
                THEN "get_block_stats_by_height"
                ELSE "finish"]
    /\ UNCHANGED <<env, web, locals, before, prev>>

Uptime(p) ==
    /\ pc[p] = "uptime"
    /\ \/ CallOk(p, <<"uptime">>, <<"uptime">>, node.uptime, UptimeWrites(node.uptime))
       \/ CallErr(p, <<"uptime">>, <<"uptime">>, UptimeSlots)
    /\ pc' = [pc EXCEPT ![p] =
                IF StatsAttempted(block_height[p]) THEN "get_block_stats_by_height"
                ELSE "finish"]
    /\ UNCHANGED <<env, web, locals, before, prev>>

GetBlockStats(p) ==
    /\ pc[p] = "get_block_stats_by_height"
    /\ LET height == Unwrap(block_height[p])
           logged == <<"get_block_stats_by_height", AsU32(height)>>
       IN  \/ CallOk(p, <<"get_block_stats_by_height">>, logged,
                     node.block_stats, BlockStatsWrites(node.block_stats))
           \/ CallErr(p, <<"get_block_stats_by_height">>, logged, BlockStatsSlots)
    /\ pc' = [pc EXCEPT ![p] = "finish"]
    /\ UNCHANGED <<env, web, locals, before, prev>>

\* the duration gauge left out
FinishWritesNoDuration(duration, flag) == [scrape_error |-> BoolToF64(flag)]

\* the error gauge only ever raised
FinishWritesSticky(duration, flag) ==
    [scrape_duration_seconds |-> ToF64(duration),
     scrape_error |-> IF flag THEN <<1, 1>> ELSE metrics["scrape_error"]]

\* collect's last three statements
FinishWrites(duration, flag) ==
    [scrape_duration_seconds |-> ToF64(duration),
     scrape_error |-> BoolToF64(flag)]

\* the flag of one cycle raised by a failure in any cycle
FinishCollectSharedFlag(p) ==
    /\ pc[p] = "finish"
    /\ LET w == FinishWrites(clock - start[p], \E q \in Workers : had_error[q]) IN
       /\ metrics' = SetAll(metrics, w)
       /\ written' = [written EXCEPT ![p] = @ \cup DOMAIN w]
       /\ writer' = SetBy(writer, p, w)
    /\ pc' = [pc EXCEPT ![p] = "done"]
    /\ UNCHANGED <<env, web, clock, locals, had_error, calls, results, before, prev, last_good,
                   failures>>

FinishCollect(p) ==
    /\ pc[p] = "finish"
    /\ LET w == FinishWrites(clock - start[p], had_error[p]) IN
       /\ metrics' = SetAll(metrics, w)
       /\ written' = [written EXCEPT ![p] = @ \cup DOMAIN w]
       /\ writer' = SetBy(writer, p, w)
    /\ pc' = [pc EXCEPT ![p] = "done"]
    /\ UNCHANGED <<env, web, clock, locals, had_error, calls, results, before, prev, last_good,
                   failures>>

\* a step of a cycle that has started
Running(p) ==
    \/ GetBlockchainInfo(p)
    \/ GetMempoolInfo(p)
    \/ GetNetworkInfo(p)
    \/ GetPeerInfo(p)
    \/ GetMiningInfo(p)
    \/ GetChainTxStats(p)
    \/ GetNetTotals(p)
    \/ EstimateSmartFee(p)
    \/ GetChainTips(p)
    \/ Uptime(p)
    \/ GetBlockStats(p)
    \/ FinishCollect(p)

\* any step of collect on worker p
Collect(p) ==
    \/ StartCycle(p) /\ UNCHANGED web
    \/ Running(p)

\* cycles one after another: a single worker, and the node between its cycles
Next ==
    \/ NodeAdvance
    \/ NodeStop
    \/ NodeRestart
    \/ Collect(1)

Spec == Init /\ [][Next]_vars

\* the last cycle of a behaviour, on a fresh collector
InitLastCycle ==
    /\ InitWorkers
    /\ node = NodeData(1)
    /\ cycles = MaxCycles - 1
    /\ failures = 0

\* every call of the node returns, so a cycle that has started takes its next step
FairSpec == InitLastCycle /\ [][Next]_vars /\ WF_vars(Running(1))

(***************************************************************************)
(* One cycle over enumerated inputs: every connection list up to MaxPeers  *)
(* records, and every array of five percentiles over two values (besides   *)
(* the mock node's array).                                                 *)
(***************************************************************************)
PeerInputs ==
    {Peer(inb, 5, 10, ping) :
        inb \in BOOLEAN, ping \in {None, Some(Rat(1, 20)), Some(Rat(1, 10))}}

RECURSIVE SeqsUpTo(_, _)
SeqsUpTo(S, n) ==
    IF n = 0 THEN {<<>>}
    ELSE LET shorter == SeqsUpTo(S, n - 1)
         IN  shorter \cup {Append(q, x) : q \in shorter, x \in S}

PeerLists == SeqsUpTo(PeerInputs, MaxPeers)

PercentileInputs == [1..5 -> {5, 10}] \cup {<<5, 10, 20, 50, 100>>}

InputNodes ==
    {[NodeData(1) EXCEPT !.peer_info = l] : l \in PeerLists}
    \cup {[NodeData(1) EXCEPT !.block_stats.fee_rate_percentiles = q] :
            q \in PercentileInputs}

InitInputs ==
    /\ InitWorkers
    /\ node \in InputNodes
    /\ cycles = MaxCycles - 1
    /\ failures = MaxFailures - 1

NextInputs ==
    \/ NodeStop
    \/ NodeRestart
    \/ Collect(1)

SpecInputs == InitInputs /\ [][NextInputs]_vars

(***************************************************************************)
(* Cycles against a NodeClient whose calls fail with any variant of Error. *)
(***************************************************************************)
InitErrors ==
    /\ InitWorkers
    /\ node = [NodeData(1) EXCEPT !.errors = ErrorVariants]
    /\ cycles = 0
    /\ failures = 0

NextErrors ==
    \/ NodeAdvance
    \/ Collect(1)

SpecErrors == InitErrors /\ [][NextErrors]_vars

(***************************************************************************)
(* One cycle against a node whose get_blockchain_info reports any height   *)
(* of a sample of the i64 values: negative ones, 0, both sides of 2^16 and *)
(* the largest value below 2^31.                                           *)
(***************************************************************************)
HeightInputs == {-800001, -1, 0, 1, Limb - 1, Limb, 800001, 2147483647}

InitHeights ==
    /\ InitWorkers
    /\ node \in {[NodeData(1) EXCEPT !.blockchain_info.blocks = h] : h \in HeightInputs}
    /\ cycles = MaxCycles - 1
    /\ failures = MaxFailures - 1

NextHeights == Collect(1)

SpecHeights == InitHeights /\ [][NextHeights]_vars

(***************************************************************************)
(* One cycle against a node whose connection list has up to MaxPeers       *)
(* records with byte counters at both ends of the u64 range: one unit and  *)
(* the largest u64 multiple of the unit.                                   *)
(***************************************************************************)
CounterInputs == {1, U64Units - 1}

TotalsPeers == {Peer(FALSE, sent, recv, None) : sent \in CounterInputs, recv \in CounterInputs}

InitTotals ==
    /\ InitWorkers
    /\ node \in {[NodeData(1) EXCEPT !.peer_info = l] : l \in SeqsUpTo(TotalsPeers, MaxPeers)}
    /\ cycles = MaxCycles - 1
    /\ failures = MaxFailures - 1

NextTotals == Collect(1)

SpecTotals == InitTotals /\ [][NextTotals]_vars

(***************************************************************************)
(* The arms of collect taken in any order: one cycle in which the calls    *)
(* are made in an order of the scheduler's choosing, block statistics      *)
(* after get_blockchain_info, and the last three statements at the end.    *)
(***************************************************************************)
\* the result the node n has for call c
ResultOf(n, c) ==
    CASE c = <<"get_blockchain_info">> -> n.blockchain_info
      [] c = <<"get_mempool_info">> -> n.mempool_info
      [] c = <<"get_network_info">> -> n.network_info
      [] c = <<"get_peer_info">> -> n.peer_info
      [] c = <<"get_mining_info">> -> n.mining_info
      [] c = <<"get_chain_tx_stats">> -> n.chain_tx_stats
      [] c = <<"get_net_totals">> -> n.net_totals
      [] c \in FeeCalls -> n.smart_fee[CHOOSE i \in DOMAIN FeeTargets : FeeCall(i) = c]
      [] c = <<"get_chain_tips">> -> n.chain_tips
      [] c = <<"uptime">> -> n.uptime
      [] c = <<"get_block_stats_by_height">> -> n.block_stats

\* the gauges that the Ok arm of call c sets for the result r, and their values
WritesOf(c, r) ==
    CASE c = <<"get_blockchain_info">> -> BlockchainInfoWrites(r)
      [] c = <<"get_mempool_info">> -> MempoolInfoWrites(r)
      [] c = <<"get_network_info">> -> NetworkInfoWrites(r)
      [] c = <<"get_peer_info">> -> PeerInfoWrites(r)
      [] c = <<"get_mining_info">> -> MiningInfoWrites(r)
      [] c = <<"get_chain_tx_stats">> -> ChainTxStatsWrites(r)
      [] c = <<"get_net_totals">> -> NetTotalsWrites(r)
      [] c \in FeeCalls -> SmartFeeWrites(CHOOSE i \in DOMAIN FeeTargets : FeeCall(i) = c, r)
      [] c = <<"get_chain_tips">> -> ChainTipsWrites(r)
      [] c = <<"uptime">> -> UptimeWrites(r)
      [] c = <<"get_block_stats_by_height">> -> BlockStatsWrites(r)

\* the gauges that the Err arm of call c is given
SlotsOf(c) ==
    CASE c = <<"get_blockchain_info">> -> BlockchainSlots
      [] c = <<"get_mempool_info">> -> MempoolSlots
      [] c = <<"get_network_info">> -> NetworkSlots
      [] c = <<"get_peer_info">> -> PeerSlots
      [] c = <<"get_mining_info">> -> MiningSlots
      [] c = <<"get_chain_tx_stats">> -> ChainTxSlots
      [] c = <<"get_net_totals">> -> NetTotalsSlots
      [] c \in FeeCalls -> {FeeGauges[CHOOSE i \in DOMAIN FeeTargets : FeeCall(i) = c]}
      [] c = <<"get_chain_tips">> -> ChainTipsSlots
      [] c = <<"uptime">> -> UptimeSlots
      [] c = <<"get_block_stats_by_height">> -> BlockStatsSlots

\* collect's first three statements, before calls made in any order
StartPermuted(p) ==
    /\ pc[p] = "idle"
    /\ cycles < MaxCycles
    /\ cycles' = cycles + 1
    /\ start' = [start EXCEPT ![p] = clock]
    /\ had_error' = [had_error EXCEPT ![p] = FALSE]
    /\ block_height' = [block_height EXCEPT ![p] = None]
    /\ fee_idx' = [fee_idx EXCEPT ![p] = 1]
    /\ calls' = [calls EXCEPT ![p] = <<>>]
    /\ results' = [results EXCEPT ![p] = [c \in Calls |-> NotCalled]]
    /\ written' = [written EXCEPT ![p] = {}]
    /\ before' = [before EXCEPT ![p] = metrics]
    /\ prev' = [prev EXCEPT ![p] = results[p]]
    /\ pc' = [pc EXCEPT ![p] = "permuted"]
    /\ UNCHANGED <<metrics, node, node_up, clock, last_good, failures, writer, web>>

\* the calls still to be made once block_height is h and the calls of made are made
ToMake(h, made) ==
    (Calls \ made) \ (IF <<"get_blockchain_info">> \in made /\ ~StatsAttempted(h)
                       THEN {<<"get_block_stats_by_height">>} ELSE {})

\* what calls holds once a call has been made at another place than its place in
\* collect
OutOfTurn == <<"out of turn">>

\* one call not yet made is made and its Ok or Err arm runs; block statistics only
\* once get_blockchain_info has been made and has left a height
PermutedArm(p) ==
    /\ pc[p] = "permuted"
    /\ \E c \in ToMake(block_height[p], {d \in Calls : results[p][d] # NotCalled}) :
           /\ c = <<"get_block_stats_by_height">> => StatsAttempted(block_height[p])
           /\ \/ /\ ArmOk(p, c, ResultOf(node, c), WritesOf(c, ResultOf(node, c)))
                 /\ block_height' =
                        IF c = <<"get_blockchain_info">>
                        THEN [block_height EXCEPT ![p] = HeightOnOk(ResultOf(node, c))]
                        ELSE block_height
              \/ /\ ArmErr(p, c, SlotsOf(c))
                 /\ block_height' =
                        IF c = <<"get_blockchain_info">>
                        THEN [block_height EXCEPT ![p] = HeightOnErr(@)]
                        ELSE block_height
           /\ pc' = [pc EXCEPT ![p] =
                       IF ToMake(block_height'[p],
                                 {d \in Calls : results'[p][d] # NotCalled}) = {}
                       THEN "finish" ELSE "permuted"]
           /\ calls' = [calls EXCEPT ![p] =
                          IF c = Enumeration[clock - start[p] + 1] THEN @ ELSE OutOfTurn]
    /\ UNCHANGED <<env, web, fee_idx, start, before, prev>>

InitPermuted ==
    /\ InitWorkers
    /\ node = NodeData(1)
    /\ cycles = MaxCycles - 1
    /\ failures = MaxFailures - 1

NextPermuted ==
    \/ StartPermuted(1)
    \/ PermutedArm(1)
    \/ FinishCollect(1)

SpecPermuted == InitPermuted /\ [][NextPermuted]_vars


(***************************************************************************)
(* The HTTP layer: /metrics runs scrape on a blocking thread and answers    *)
(* with its text; /health answers at once.                                 *)
(***************************************************************************)
Range(q) == {q[i] : i \in DOMAIN q}

\* Registry::gather and TextEncoder::encode: one sample per registered gauge, under
\* the gauge's registered name
Gather(reg, m) == {<<GaugeName[s], m[s]>> : s \in {t \in DOMAIN m : GaugeName[t] \in reg}}

\* what awaiting the blocking task yields: Ok(body), or Err(JoinError) when the
\* task panicked
JoinOk(body) == <<"ok", body>>
JoinErr == <<"panic">>

\* a handler that answers 500 when the body reports a scrape error
RespondScrapeError(joined) ==
    IF joined[1] = "ok"
           /\ <<"bitcoin_collector_last_scrape_error", <<1, 1>>>> \notin joined[2]
    THEN [status |-> 200, body |-> joined[2]]
    ELSE [status |-> 500, body |-> "metrics collection failed"]

\* metrics_handler's match on what the task yields
Respond(joined) ==
    IF joined[1] = "ok" THEN [status |-> 200, body |-> joined[2]]
    ELSE [status |-> 500, body |-> "metrics collection failed"]

\* a panic that takes the process down
AfterPanicAbort(a) == FALSE

\* the process after a panic on a blocking thread: the runtime catches the panic
\* and hands it to the awaiting handler
AfterPanic(a) == a

\* the statuses of the responses a worker has given, in order
Past(h) ==
    CASE h[1] = "none" -> <<>>
      [] h[1] = "pending" -> h[3]
      [] h[1] = "answered" -> Append(h[5], h[4].status)

\* request number n is being served, after those answered with the statuses past
Pending(n, past) == <<"pending", n, past>>

\* request number n has been answered
Answered(n, joined, past) == <<"answered", n, joined, Respond(joined), past>>

\* a /metrics request arrives: the handler spawns scrape, which enters collect
MetricsRequest(p) ==
    /\ pc[p] = "idle"
    /\ http[p][1] # "pending"
    /\ StartCycle(p)
    /\ http' = [http EXCEPT ![p] = Pending(cycles + 1, Past(@))]
    /\ UNCHANGED <<registry, health, alive>>

\* a scrape that gathers and encodes without waiting for collect to return
ScrapeEncodeEarly(p) ==
    /\ pc[p] # "idle"
    /\ http[p][1] = "pending"
    /\ \/ /\ registry[1] = "ok"
          /\ http' = [http EXCEPT ![p] = Answered(@[2], JoinOk(Gather(registry[2], metrics)), @[3])]
          /\ alive' = alive
       \/ /\ http' = [http EXCEPT ![p] = Answered(@[2], JoinErr, @[3])]
          /\ alive' = AfterPanic(alive)
    /\ pc' = [pc EXCEPT ![p] = "idle"]
    /\ UNCHANGED <<metrics, node, node_up, clock, locals, had_error, history, cycles,
                   failures, writer, registry, health>>

\* collect has returned: scrape gathers and encodes, the handler answers.  encode
\* returns Ok, or Err and then `expect` panics.
ScrapeEncode(p) ==
    /\ pc[p] = "done"
    /\ http[p][1] = "pending"
    /\ \/ /\ registry[1] = "ok"
          /\ http' = [http EXCEPT ![p] = Answered(@[2], JoinOk(Gather(registry[2], metrics)), @[3])]
          /\ alive' = alive
       \/ /\ http' = [http EXCEPT ![p] = Answered(@[2], JoinErr, @[3])]
          /\ alive' = AfterPanic(alive)
    /\ pc' = [pc EXCEPT ![p] = "idle"]
    /\ UNCHANGED <<metrics, node, node_up, clock, locals, had_error, history, cycles,
                   failures, writer, registry, health>>

\* the whole of metrics_handler on worker p
MetricsHandler(p) ==
    /\ alive
    /\ \/ MetricsRequest(p)
       \/ Running(p)
       \/ ScrapeEncode(p)

\* a probe that reports whether the node answers
HealthResponseByNode ==
    IF node_up THEN [status |-> 200, body |-> "ok"]
    ELSE [status |-> 503, body |-> "node unreachable"]

\* health_handler's response
HealthResponse == [status |-> 200, body |-> "ok"]

\* a /health request is answered; with the response are noted the conditions under
\* which it was given
HealthHandler ==
    /\ alive
    /\ health' = Some([response |-> HealthResponse,
                       node_up |-> node_up,
                       running |-> \E p \in Workers : pc[p] \notin {"idle", "done"},
                       failed |-> metrics["scrape_error"] = <<1, 1>>,
                       after_panic |-> \E p \in Workers : 500 \in Range(Past(http[p]))])
    /\ UNCHANGED <<metrics, node, node_up, clock, pc, locals, had_error, history,
                   cycles, failures, writer, registry, http, alive>>

\* the server with one request at a time
InitServe ==
    /\ InitWorkers
    /\ node = NodeData(1)
    /\ cycles = 0
    /\ failures = MaxFailures - 1

NextServe ==
    \/ NodeStop
    \/ NodeRestart
    \/ HealthHandler
    \/ MetricsHandler(1)

SpecServe == InitServe /\ [][NextServe]_vars

(***************************************************************************)
(* Two /metrics requests at once: each runs collect on a thread of its own *)
(* against the one MetricsCollector, while the node's data moves on.  An    *)
(* Ok arm's Gauge::set calls are taken as one step; every state reached    *)
(* this way is also reached when they are taken one by one.                *)
(***************************************************************************)
\* the node's data changes while cycles are running
NodeAdvanceLive ==
    /\ ~Quiet
    /\ node.gen < MaxGen
    /\ node' = [NodeData(node.gen + 1) EXCEPT !.errors = node.errors]
    /\ UNCHANGED <<metrics, node_up, clock, pc, locals, had_error, history, cycles,
                   failures, writer, web>>

\* the second request arrives while the first one's cycle is under way, with at
\* most MaxOverlap of its calls still to be made
SecondRequest ==
    /\ pc[1] \notin {"idle", "done"}
    /\ pc[2] = "idle"
    /\ Cardinality(Calls) - Len(calls[1]) <= MaxOverlap
    /\ StartCycle(2)
    /\ UNCHANGED web

\* two cycles in all, with every call answered
InitOverlap ==
    /\ InitWorkers
    /\ node = NodeData(MaxGen - 1)
    /\ cycles = MaxCycles - 2
    /\ failures = MaxFailures

NextOverlap ==
    \/ NodeAdvanceLive
    \/ Collect(1)
    \/ SecondRequest
    \/ Running(2)

SpecOverlap == InitOverlap /\ [][NextOverlap]_vars

(***************************************************************************)
(* Two /metrics requests whose scrapes overlap: the second arrives while   *)
(* the first one's cycle is in its last MaxOverlap calls, and each is      *)
(* answered once its own scrape has gathered and encoded.                  *)
(***************************************************************************)
SecondMetricsRequest ==
    /\ alive
    /\ pc[1] \notin {"idle", "done"}
    /\ Cardinality(Calls) - Len(calls[1]) <= MaxOverlap
    /\ MetricsRequest(2)

\* two requests in all, one call of which may fail
InitOverlapServe ==
    /\ InitWorkers
    /\ node = NodeData(1)
    /\ cycles = MaxCycles - 2
    /\ failures = MaxFailures - 1

NextOverlapServe ==
    \/ MetricsHandler(1)
    \/ SecondMetricsRequest
    \/ alive /\ Running(2)
    \/ alive /\ ScrapeEncode(2)

SpecOverlapServe == InitOverlapServe /\ [][NextOverlapServe]_vars

(***************************************************************************)
(* What the properties speak of: which call feeds which gauge, and which   *)
(* value of the call's result belongs in it.  These are written from the   *)
(* result types, with set and sum operators of their own.                  *)
(***************************************************************************)
\* the call that feeds gauge s (none feeds the two meta gauges)
SourceOf(s) ==
    CASE s \in BlockchainSlots -> <<"get_blockchain_info">>
      [] s \in MempoolSlots -> <<"get_mempool_info">>
      [] s \in NetworkSlots -> <<"get_network_info">>
      [] s \in PeerSlots -> <<"get_peer_info">>
      [] s \in MiningSlots -> <<"get_mining_info">>
      [] s \in ChainTxSlots -> <<"get_chain_tx_stats">>
      [] s \in NetTotalsSlots -> <<"get_net_totals">>
      [] s = "fee_estimate_2_blocks" -> <<"estimate_smart_fee", 2>>
      [] s = "fee_estimate_6_blocks" -> <<"estimate_smart_fee", 6>>
      [] s = "fee_estimate_12_blocks" -> <<"estimate_smart_fee", 12>>
      [] s = "fee_estimate_144_blocks" -> <<"estimate_smart_fee", 144>>
      [] s \in ChainTipsSlots -> <<"get_chain_tips">>
      [] s \in UptimeSlots -> <<"uptime">>
      [] s \in BlockStatsSlots -> <<"get_block_stats_by_height">>

DataSlots == Slots \ MetaSlots

FedBy(c) == {s \in DataSlots : SourceOf(s) = c}

RECURSIVE SumOver(_, _)
SumOver(f, I) ==
    IF I = {} THEN 0
    ELSE LET i == CHOOSE j \in I : TRUE IN f[i] + SumOver(f, I \ {i})

RECURSIVE RatSumOver(_, _)
RatSumOver(f, I) ==
    IF I = {} THEN <<0, 1>>
    ELSE LET i == CHOOSE j \in I : TRUE IN RatAdd(f[i], RatSumOver(f, I \ {i}))

\* the indices of the records of list l that report a ping
Pinged(l) == {i \in DOMAIN l : l[i].ping_time # None}

\* the arithmetic mean of the reported pings, 0 when there is none
MeanPing(l) ==
    IF Pinged(l) = {} THEN <<0, 1>>
    ELSE LET total == RatSumOver([i \in Pinged(l) |-> l[i].ping_time[1]], Pinged(l))
         IN  Rat(total[1], total[2] * Cardinality(Pinged(l)))

Num(v) == Some(<<v, 1>>)
Flag(b) == Some(IF b THEN <<1, 1>> ELSE <<0, 1>>)
OptNum(o) == IF o = None THEN None ELSE Num(o[1])

\* the value that result r of SourceOf(s) carries for gauge s: Some(value), or None
\* when the result has no value for it
Carried(s, r) ==
    CASE s = "blocks" -> Num(r.blocks)
      [] s = "headers" -> Num(r.headers)
      [] s = "difficulty" -> Some(r.difficulty)
      [] s = "verification_progress" -> Some(r.verification_progress)
      [] s = "size_on_disk" -> Num(r.size_on_disk)
      [] s = "initial_block_download" -> Flag(r.initial_block_download)
      [] s = "chain_pruned" -> Flag(r.pruned)
      [] s = "mempool_transactions" -> Num(r.size)
      [] s = "mempool_bytes" -> Num(r.bytes)
      [] s = "mempool_usage" -> Num(r.usage)
      [] s = "mempool_max_bytes" -> Num(r.max_mempool)
      [] s = "mempool_min_fee" -> Some(r.mempool_min_fee)
      [] s = "mempool_total_fee" -> Some(r.total_fee)
      [] s = "mempool_min_relay_tx_fee" -> Some(r.min_relay_tx_fee)
      [] s = "mempool_incremental_relay_fee" -> Some(r.incremental_relay_fee)
      [] s = "mempool_unbroadcast_count" -> Num(r.unbroadcast_count)
      [] s = "mempool_full_rbf" -> Flag(r.full_rbf)
      [] s = "connections" -> Num(r.connections)
      [] s = "connections_in" -> Num(r.connections_in)
      [] s = "connections_out" -> Num(r.connections_out)
      [] s = "network_active" -> Flag(r.network_active)
      [] s = "node_version" -> Num(r.version)
      [] s = "protocol_version" -> Num(r.protocol_version)
      [] s = "time_offset" -> Num(r.time_offset)
      [] s = "relay_fee" -> Some(r.relay_fee)
      [] s = "incremental_fee" -> Some(r.incremental_fee)
      [] s = "peer_count" -> Num(Cardinality(DOMAIN r))
      [] s = "peers_inbound" -> Num(Cardinality({i \in DOMAIN r : r[i].inbound}))
      [] s = "peers_outbound" -> Num(Cardinality({i \in DOMAIN r : ~r[i].inbound}))
      [] s = "peers_total_bytes_sent" ->
           Num(SumOver([i \in DOMAIN r |-> r[i].bytes_sent], DOMAIN r))
      [] s = "peers_total_bytes_received" ->
           Num(SumOver([i \in DOMAIN r |-> r[i].bytes_received], DOMAIN r))
      [] s = "peers_avg_ping_seconds" -> Some(MeanPing(r))
      [] s = "network_hash_ps" -> Some(r.network_hash_ps)
      [] s = "mining_pooled_tx" -> Num(r.pooled_tx)
      [] s = "chain_tx_count" -> Num(r.tx_count)
      [] s = "chain_tx_rate" -> r.tx_rate
      [] s = "chain_tx_window_block_count" -> Num(r.window_block_count)
      [] s = "chain_tx_window_tx_count" -> OptNum(r.window_tx_count)
      [] s = "chain_tx_window_interval" -> OptNum(r.window_interval)
      [] s = "net_total_bytes_received" -> Num(r.total_bytes_received)
      [] s = "net_total_bytes_sent" -> Num(r.total_bytes_sent)
      [] s \in FeeSlots -> r.fee_rate
      [] s = "chain_tips_count" -> Num(Cardinality(DOMAIN r))
      [] s = "node_uptime_seconds" -> Num(r)
      [] s = "latest_block_txs" -> Num(r.txs)
      [] s = "latest_block_size" -> Num(r.total_size)
      [] s = "latest_block_weight" -> Num(r.total_weight)
      [] s = "latest_block_avg_fee" -> Num(r.average_fee)
      [] s = "latest_block_avg_fee_rate" -> Num(r.average_fee_rate)
      [] s = "latest_block_median_fee" -> Num(r.median_fee)
      [] s = "latest_block_min_fee" -> Num(r.minimum_fee)
      [] s = "latest_block_max_fee" -> Num(r.max_fee)
      [] s = "latest_block_min_fee_rate" -> Num(r.minimum_fee_rate)
      [] s = "latest_block_max_fee_rate" -> Num(r.max_fee_rate)
      [] s = "latest_block_total_fee" -> Num(r.total_fee)
      [] s = "latest_block_subsidy" -> Num(r.subsidy)
      [] s = "latest_block_inputs" -> Num(r.inputs)
      [] s = "latest_block_outputs" -> Num(r.outputs)
      [] s = "latest_block_segwit_txs" -> Num(r.segwit_txs)
      [] s = "latest_block_segwit_total_size" -> Num(r.segwit_total_size)
      [] s = "latest_block_segwit_total_weight" -> Num(r.segwit_total_weight)
      [] s = "latest_block_total_out" -> Num(r.total_out)
      [] s = "latest_block_utxo_increase" -> Num(r.utxo_increase)
      [] s = "latest_block_fee_rate_10th" -> Num(r.fee_rate_percentiles[1])
      [] s = "latest_block_fee_rate_25th" -> Num(r.fee_rate_percentiles[2])
      [] s = "latest_block_fee_rate_50th" -> Num(r.fee_rate_percentiles[3])
      [] s = "latest_block_fee_rate_75th" -> Num(r.fee_rate_percentiles[4])
      [] s = "latest_block_fee_rate_90th" -> Num(r.fee_rate_percentiles[5])

One == <<1, 1>>
Zero == <<0, 1>>

\* the outcome of call c in worker p's cycle
Succeeded(p, c) == results[p][c][1] = "ok"
FailedIn(p, c) == results[p][c][1] = "err"
AnyFailure(p) == \E c \in Calls : FailedIn(p, c)
AllSucceeded(p) == \A c \in Calls : Succeeded(p, c)

\* worker p's cycle is over
Completed(p) == pc[p] = "done"

\* gauge s was fed by a call that succeeded in worker p's cycle
FedOk(p, s) == Succeeded(p, SourceOf(s))

\* what that call's result carries for gauge s
CarriedIn(p, s) == Carried(s, results[p][SourceOf(s)][2])

(***************************************************************************)
(* C1.                                                                     *)
(***************************************************************************)
\* C1, as stated: after a cycle in which at least one call failed, scrape_error is
\* 1.0 and every gauge fed by a call that succeeded holds the value that call
\* returned for it.
C1_AsStated ==
    \A p \in {1} :
        Completed(p) /\ AnyFailure(p) =>
            /\ metrics["scrape_error"] = One
            /\ \A s \in DataSlots : FedOk(p, s) => Some(metrics[s]) = CarriedIn(p, s)

\* C1, amended: after a cycle in which at least one call failed, scrape_error is
\* 1.0 and every gauge fed by a call that succeeded, and for which the result
\* carries a value, holds that value (an absent optional field sets nothing).
C1_FailureIsolation ==
    \A p \in {1} :
        Completed(p) /\ AnyFailure(p) =>
            /\ metrics["scrape_error"] = One
            /\ \A s \in DataSlots :
                   FedOk(p, s) /\ CarriedIn(p, s) # None =>
                       Some(metrics[s]) = CarriedIn(p, s)

\* a second cycle in which get_mempool_info failed and get_blockchain_info brought
\* a value that differs from the one the gauge held before
C1_Witness ==
    /\ Completed(1)
    /\ cycles = 2
    /\ FailedIn(1, <<"get_mempool_info">>)
    /\ Succeeded(1, <<"get_blockchain_info">>)
    /\ before[1]["blocks"] # Zero
    /\ metrics["blocks"] # before[1]["blocks"]
    /\ before[1]["mempool_bytes"] # Zero

(***************************************************************************)
(* C2.                                                                     *)
(***************************************************************************)
\* C2, as stated: after a cycle in which every call succeeded, scrape_error is 0.0
\* and every gauge but scrape_duration_seconds holds the value just fetched for it.
C2_AsStated ==
    \A p \in {1} :
        Completed(p) /\ AllSucceeded(p) =>
            /\ metrics["scrape_error"] = Zero
            /\ \A s \in DataSlots : Some(metrics[s]) = CarriedIn(p, s)

\* C2, amended: after a cycle in which every call succeeded, scrape_error is 0.0
\* and every gauge but scrape_duration_seconds for which the result carries a
\* value holds that value.
C2_AllSucceed ==
    \A p \in {1} :
        Completed(p) /\ AllSucceeded(p) =>
            /\ metrics["scrape_error"] = Zero
            /\ \A s \in DataSlots :
                   CarriedIn(p, s) # None => Some(metrics[s]) = CarriedIn(p, s)

\* a second cycle in which every call succeeded, after a first one that had a
\* failure, with new data on the node
C2_Witness ==
    /\ Completed(1)
    /\ cycles = 2
    /\ AllSucceeded(1)
    /\ before[1]["scrape_error"] = One
    /\ before[1]["blocks"] # Zero
    /\ metrics["blocks"] # before[1]["blocks"]

(***************************************************************************)
(* C3.                                                                     *)
(***************************************************************************)
\* C3: at every point of a cycle and after it, each gauge fed by a call that failed
\* in the cycle holds the value it held when the cycle started, which is the last
\* value a successful call set it to, or the initial 0 if none ever did; the cycle
\* has not set the gauge at all.
C3_FailedKeepsValue ==
    \A p \in {1} : \A c \in Calls :
        FailedIn(p, c) =>
            \A s \in FedBy(c) :
                /\ metrics[s] = before[p][s]
                /\ metrics[s] = last_good[s]
                /\ s \notin written[p]

\* a second cycle is over in which get_mempool_info failed, after a first one in
\* which it succeeded: the gauges still hold the first cycle's values, not 0
C3_Witness ==
    /\ Completed(1)
    /\ cycles = 2
    /\ FailedIn(1, <<"get_mempool_info">>)
    /\ metrics["mempool_bytes"] # Zero
    /\ metrics["mempool_bytes"] = before[1]["mempool_bytes"]
    /\ node.gen = 2

(***************************************************************************)
(* C4.                                                                     *)
(***************************************************************************)
\* C4: every cycle that has started comes to its end, and at its end it has set
\* both scrape_duration_seconds and scrape_error, whichever calls failed.
C4_CycleCompletes ==
    \A p \in {1} :
        (pc[p] \notin {"idle", "done"}) ~> (Completed(p) /\ MetaSlots \subseteq written[p])

\* a cycle is over in which every call made failed, and the two meta gauges are
\* among the gauges it set
C4_Witness ==
    /\ Completed(1)
    /\ \A c \in Calls \ {<<"get_block_stats_by_height">>} : FailedIn(1, c)
    /\ written[1] = MetaSlots
    /\ metrics["scrape_duration_seconds"] # Zero

(***************************************************************************)
(* C5.                                                                     *)
(***************************************************************************)
\* C5: after a cycle, scrape_error is 1.0 exactly when a call of that cycle failed,
\* whatever the flag was before the cycle.
C5_FlagPerCycle ==
    \A p \in {1} :
        Completed(p) =>
            /\ metrics["scrape_error"] \in {Zero, One}
            /\ metrics["scrape_error"] = One <=> AnyFailure(p)

\* a cycle without failure is over, and the flag was 1.0 when it started
C5_Witness ==
    /\ Completed(1)
    /\ before[1]["scrape_error"] = One
    /\ ~AnyFailure(1)
    /\ metrics["scrape_error"] = Zero

(***************************************************************************)
(* C6.                                                                     *)
(***************************************************************************)
\* the names of the calls a worker's cycle has made, in order
CallNames(p) == [i \in DOMAIN calls[p] |-> calls[p][i][1]]

Invoked(p, name) == \E i \in DOMAIN calls[p] : calls[p][i][1] = name

\* C6: in a cycle in which get_blockchain_info failed, get_block_stats_by_height
\* is never invoked, and no latest_block_* gauge is set or changed.
C6_StatusFailedSkipsStats ==
    \A p \in {1} :
        FailedIn(p, <<"get_blockchain_info">>) =>
            /\ ~Invoked(p, "get_block_stats_by_height")
            /\ results[p][<<"get_block_stats_by_height">>] = NotCalled
            /\ BlockStatsSlots \cap written[p] = {}
            /\ \A s \in BlockStatsSlots : metrics[s] = before[p][s]

\* a second cycle is over in which get_blockchain_info failed while the calls after
\* it succeeded, after a first cycle that had set the latest_block_* gauges
C6_Witness ==
    /\ Completed(1)
    /\ FailedIn(1, <<"get_blockchain_info">>)
    /\ Succeeded(1, <<"uptime">>)
    /\ before[1]["latest_block_txs"] # Zero
    /\ before[1]["latest_block_fee_rate_90th"] # Zero
    /\ node.gen = 2

(***************************************************************************)
(* C7.                                                                     *)
(***************************************************************************)
\* C7: after a cycle, all four targets have been asked; the gauge of each target
\* whose call returned a fee rate holds that rate, and the gauge of each target
\* whose call failed holds the value it had before the cycle.
C7_FeeSlotsIndependent ==
    \A p \in {1} :
        Completed(p) =>
            \A i \in DOMAIN FeeTargets :
                /\ results[p][FeeCall(i)] # NotCalled
                /\ Succeeded(p, FeeCall(i)) /\ results[p][FeeCall(i)][2].fee_rate # None =>
                       Some(metrics[FeeGauges[i]]) = results[p][FeeCall(i)][2].fee_rate
                /\ FailedIn(p, FeeCall(i)) =>
                       metrics[FeeGauges[i]] = before[p][FeeGauges[i]]

\* a second cycle is over in which the call for 6 blocks failed and the three
\* others succeeded, those for 2 and 12 blocks with a rate that differs from the
\* one their gauge held
C7_Witness ==
    /\ Completed(1)
    /\ FailedIn(1, FeeCall(2))
    /\ Succeeded(1, FeeCall(4))
    /\ \A i \in {1, 3} :
           /\ Succeeded(1, FeeCall(i))
           /\ results[1][FeeCall(i)][2].fee_rate # None
           /\ before[1][FeeGauges[i]] # Zero
           /\ metrics[FeeGauges[i]] # before[1][FeeGauges[i]]
    /\ before[1]["fee_estimate_6_blocks"] # Zero
    /\ metrics["fee_estimate_6_blocks"] = before[1]["fee_estimate_6_blocks"]

\* the same with two targets failing, 2 and 144
C7_WitnessTwo ==
    /\ Completed(1)
    /\ FailedIn(1, FeeCall(1)) /\ FailedIn(1, FeeCall(4))
    /\ Succeeded(1, FeeCall(2)) /\ Succeeded(1, FeeCall(3))
    /\ before[1]["fee_estimate_2_blocks"] # Zero

(***************************************************************************)
(* C8.                                                                     *)
(***************************************************************************)
\* the connection list that get_peer_info returned in worker p's cycle
PeersReturned(p) == results[p][<<"get_peer_info">>][2]

\* C8: after a cycle in which get_peer_info succeeded, peer_count is the length of
\* the list, peers_inbound the number of records flagged inbound, peers_inbound +
\* peers_outbound equals peer_count, and peers_outbound is not negative.
C8_PeerCounts ==
    \A p \in {1} :
        Completed(p) /\ Succeeded(p, <<"get_peer_info">>) =>
            LET l == PeersReturned(p) IN
            /\ metrics["peer_count"] = <<Len(l), 1>>
            /\ metrics["peers_inbound"] = <<Cardinality({i \in DOMAIN l : l[i].inbound}), 1>>
            /\ metrics["peers_outbound"][2] = 1
            /\ metrics["peers_inbound"][1] + metrics["peers_outbound"][1]
                   = metrics["peer_count"][1]
            /\ metrics["peers_outbound"][1] >= 0

\* a cycle is over that got a list of three records, two of them inbound
C8_Witness ==
    /\ Completed(1)
    /\ Succeeded(1, <<"get_peer_info">>)
    /\ Len(PeersReturned(1)) = 3
    /\ metrics["peers_inbound"] = <<2, 1>>
    /\ metrics["peers_outbound"] = One

\* a cycle is over that got the empty list
C8_WitnessEmpty ==
    /\ Completed(1)
    /\ Succeeded(1, <<"get_peer_info">>)
    /\ PeersReturned(1) = <<>>
    /\ metrics["peer_count"] = Zero

(***************************************************************************)
(* C9.                                                                     *)
(***************************************************************************)
\* C9: after a cycle in which get_peer_info succeeded, peers_avg_ping_seconds times
\* the number of records that report a ping equals the sum of the reported pings,
\* and it is 0.0 when no record reports one; its value is a quotient by a non-zero
\* divisor.
C9_AvgPing ==
    \A p \in {1} :
        Completed(p) /\ Succeeded(p, <<"get_peer_info">>) =>
            LET l == PeersReturned(p)
                avg == metrics["peers_avg_ping_seconds"]
                total == RatSumOver([i \in Pinged(l) |-> l[i].ping_time[1]], Pinged(l))
            IN  /\ avg[2] > 0
                /\ IF Pinged(l) = {} THEN avg = Zero
                   ELSE avg[1] * Cardinality(Pinged(l)) * total[2] = total[1] * avg[2]

\* a cycle is over that got three records, one without a ping and two with
\* different pings: the mean is over the two
C9_Witness ==
    /\ Completed(1)
    /\ Succeeded(1, <<"get_peer_info">>)
    /\ Len(PeersReturned(1)) = 3
    /\ Cardinality(Pinged(PeersReturned(1))) = 2
    /\ metrics["peers_avg_ping_seconds"] = <<3, 40>>

\* a cycle is over that got two records, neither with a ping
C9_WitnessNoPing ==
    /\ Completed(1)
    /\ Succeeded(1, <<"get_peer_info">>)
    /\ Len(PeersReturned(1)) = 2
    /\ Pinged(PeersReturned(1)) = {}
    /\ metrics["peers_avg_ping_seconds"] = Zero

(***************************************************************************)
(* C10.                                                                    *)
(***************************************************************************)
\* the five percentile gauges, in the order 10th, 25th, 50th, 75th, 90th
PercentileGauges ==
    <<"latest_block_fee_rate_10th", "latest_block_fee_rate_25th",
      "latest_block_fee_rate_50th", "latest_block_fee_rate_75th",
      "latest_block_fee_rate_90th">>

\* C10: after a cycle in which get_block_stats_by_height succeeded, the k-th
\* percentile gauge holds the k-th element of fee_rate_percentiles.
C10_PercentilesByPosition ==
    \A p \in {1} :
        Completed(p) /\ Succeeded(p, <<"get_block_stats_by_height">>) =>
            LET q == results[p][<<"get_block_stats_by_height">>][2].fee_rate_percentiles
            IN  \A k \in 1..5 : metrics[PercentileGauges[k]] = <<q[k], 1>>

\* a cycle is over that got [5, 10, 20, 50, 100]
C10_Witness ==
    /\ Completed(1)
    /\ Succeeded(1, <<"get_block_stats_by_height">>)
    /\ results[1][<<"get_block_stats_by_height">>][2].fee_rate_percentiles
           = <<5, 10, 20, 50, 100>>
    /\ metrics["latest_block_fee_rate_10th"] = <<5, 1>>
    /\ metrics["latest_block_fee_rate_90th"] = <<100, 1>>

(***************************************************************************)
(* C11.                                                                    *)
(***************************************************************************)
\* every call of worker p's previous cycle succeeded
PrevAllSucceeded(p) == \A c \in Calls : prev[p][c][1] = "ok"

\* C11: after the second of two cycles in which every call succeeded and returned
\* the same result both times, every gauge but scrape_duration_seconds holds the
\* value it held after the first.
C11_Idempotent ==
    \A p \in {1} :
        Completed(p) /\ AllSucceeded(p) /\ PrevAllSucceeded(p) /\ results[p] = prev[p] =>
            \A s \in Slots \ {"scrape_duration_seconds"} : metrics[s] = before[p][s]

\* two cycles without failure against the same node data are over, and the gauges
\* hold that data
C11_Witness ==
    /\ Completed(1)
    /\ cycles = 2
    /\ AllSucceeded(1) /\ PrevAllSucceeded(1)
    /\ results[1] = prev[1]
    /\ metrics["node_uptime_seconds"] # Zero
    /\ metrics["blocks"] # Zero

(***************************************************************************)
(* C12.                                                                    *)
(***************************************************************************)
PositionOf(c) == CHOOSE i \in DOMAIN Enumeration : Enumeration[i] = c

\* the calls that a failure in worker p's cycle keeps from being made
Suppressed(p) ==
    IF FailedIn(p, <<"get_blockchain_info">>) THEN {<<"get_block_stats_by_height">>}
    ELSE {}

\* C12: after a cycle, for every call that failed, every call that comes later in
\* the enumeration has been made, except get_block_stats_by_height when
\* get_blockchain_info is the call that failed.
C12_FailureNeverAborts ==
    \A p \in {1} :
        Completed(p) =>
            \A c \in Calls :
                FailedIn(p, c) =>
                    \A d \in Calls \ Suppressed(p) :
                        PositionOf(d) > PositionOf(c) => results[p][d] # NotCalled

\* a cycle is over in which get_mempool_info and the fee estimate for 2 blocks
\* failed, and all fourteen calls were made, block statistics included
C12_Witness ==
    /\ Completed(1)
    /\ FailedIn(1, <<"get_mempool_info">>)
    /\ FailedIn(1, FeeCall(1))
    /\ Len(calls[1]) = 14
    /\ Succeeded(1, <<"get_block_stats_by_height">>)

\* a cycle is over in which get_blockchain_info failed and the twelve calls
\* after it, all but block statistics, were made
C12_WitnessStatus ==
    /\ Completed(1)
    /\ FailedIn(1, <<"get_blockchain_info">>)
    /\ Len(calls[1]) = 13
    /\ Succeeded(1, <<"uptime">>)

(***************************************************************************)
(* C13.                                                                    *)
(***************************************************************************)
\* C13: at every point of a cycle, no two of the calls made so far are calls of
\* the same operation, except calls of estimate_smart_fee, and those are for
\* different targets.
C13_NoRetry ==
    \A p \in {1} :
        \A i, j \in DOMAIN calls[p] :
            i # j /\ calls[p][i][1] = calls[p][j][1] =>
                /\ calls[p][i][1] = "estimate_smart_fee"
                /\ calls[p][i][2] # calls[p][j][2]

\* a cycle is over in which get_chain_tips and the fee estimate for 6 blocks
\* failed: fourteen calls were made, each failed one once
C13_Witness ==
    /\ Completed(1)
    /\ FailedIn(1, <<"get_chain_tips">>)
    /\ FailedIn(1, FeeCall(2))
    /\ Len(calls[1]) = 14

(***************************************************************************)
(* C14.                                                                    *)
(***************************************************************************)
\* the calls a cycle makes, given only what happens in that cycle
MadeIn(p) == {c \in Calls : results[p][c] # NotCalled}

\* C14, as stated: after a cycle, every call has been made whatever the previous
\* cycle's outcomes were (block statistics exactly when this cycle's
\* get_blockchain_info succeeded); every call that failed in the previous cycle and
\* succeeded in this one has set all its gauges; and if every call succeeded
\* scrape_error is 0.0.
C14_AsStated ==
    \A p \in {1} :
        Completed(p) =>
            /\ MadeIn(p) = Calls \ Suppressed(p)
            /\ \A c \in Calls :
                   prev[p][c][1] = "err" /\ Succeeded(p, c) => FedBy(c) \subseteq written[p]
            /\ AllSucceeded(p) => metrics["scrape_error"] = Zero

\* C14, amended: after a cycle, every call has been made whatever the previous
\* cycle's outcomes were (block statistics exactly when this cycle's
\* get_blockchain_info succeeded); every call that failed in the previous cycle and
\* succeeded in this one has set each of its gauges for which its result carries a
\* value, to that value; and if every call succeeded scrape_error is 0.0.
C14_EveryCycleFromScratch ==
    \A p \in {1} :
        Completed(p) =>
            /\ MadeIn(p) = Calls \ Suppressed(p)
            /\ \A c \in Calls :
                   prev[p][c][1] = "err" /\ Succeeded(p, c) =>
                       \A s \in FedBy(c) :
                           CarriedIn(p, s) # None =>
                               /\ s \in written[p]
                               /\ Some(metrics[s]) = CarriedIn(p, s)
            /\ AllSucceeded(p) => metrics["scrape_error"] = Zero

\* a second cycle is over in which every call succeeded, after a first one in
\* which every call that was made failed: the gauges hold the node's data and
\* scrape_error is back to 0.0
C14_Witness ==
    /\ Completed(1)
    /\ cycles = 2
    /\ \A c \in Calls \ {<<"get_block_stats_by_height">>} : prev[1][c][1] = "err"
    /\ AllSucceeded(1)
    /\ before[1]["scrape_error"] = One
    /\ before[1]["blocks"] = Zero
    /\ metrics["blocks"] # Zero
    /\ metrics["scrape_error"] = Zero

(***************************************************************************)
(* C20.                                                                    *)
(***************************************************************************)
\* the call that an entry of the log of calls stands for
KeyOf(logged) ==
    IF logged[1] = "get_block_stats_by_height" THEN <<"get_block_stats_by_height">>
    ELSE logged

\* C20: at every point of a cycle the calls made so far are, in order, the first
\* ones of the enumeration get_blockchain_info, get_mempool_info, get_network_info,
\* get_peer_info, get_mining_info, get_chain_tx_stats, get_net_totals,
\* estimate_smart_fee for 2, 6, 12, 144, get_chain_tips, uptime,
\* get_block_stats_by_height, each made after the one before it returned; and
\* scrape_duration_seconds and scrape_error are set only once the cycle's last call
\* has returned.
C20_FixedOrder ==
    \A p \in {1} :
        /\ Len(calls[p]) <= Len(Enumeration)
        /\ \A i \in DOMAIN calls[p] :
               /\ KeyOf(calls[p][i]) = Enumeration[i]
               /\ results[p][Enumeration[i]] # NotCalled
        /\ \A c \in Calls : results[p][c] # NotCalled => PositionOf(c) <= Len(calls[p])
        /\ MetaSlots \cap written[p] # {} =>
               /\ Completed(p)
               /\ MadeIn(p) = Calls \ Suppressed(p)

\* a cycle is over that made all fourteen calls, one of which failed, the fee
\* estimates eighth to eleventh and block statistics last
C20_Witness ==
    /\ Completed(1)
    /\ Len(calls[1]) = 14
    /\ FailedIn(1, <<"get_net_totals">>)
    /\ calls[1][8] = <<"estimate_smart_fee", 2>>
    /\ calls[1][11] = <<"estimate_smart_fee", 144>>
    /\ calls[1][14][1] = "get_block_stats_by_height"
    /\ MetaSlots \subseteq written[1]

\* a cycle is under way: seven calls have returned, the fee estimates are next, and
\* neither meta gauge has been set
C20_WitnessMidCycle ==
    /\ pc[1] = "estimate_smart_fee"
    /\ fee_idx[1] = 1
    /\ Len(calls[1]) = 7
    /\ MetaSlots \cap written[1] = {}

(***************************************************************************)
(* C15.                                                                    *)
(***************************************************************************)
\* C15: in every reachable state a /health request would be answered, and every
\* answer given so far is status 200 with body "ok", whether the node answered,
\* whether a cycle was running and whatever earlier cycles and requests came to.
C15_HealthFixed ==
    /\ ENABLED HealthHandler
    /\ health # None => Unwrap(health).response = [status |-> 200, body |-> "ok"]

\* /health was answered while the node was down and a cycle was running, after a
\* cycle that had failures
C15_Witness ==
    /\ health # None
    /\ ~Unwrap(health).node_up
    /\ Unwrap(health).running
    /\ Unwrap(health).failed
    /\ Unwrap(health).response.status = 200

(***************************************************************************)
(* C16.                                                                    *)
(***************************************************************************)
\* the samples of every gauge at its current value, under its registered name
Exposition == {<<GaugeName[s], metrics[s]>> : s \in Slots}

C16_WitnessEncode ==
    /\ http[1][1] = "answered"
    /\ AllSucceeded(1)
    /\ http[1][3] = JoinErr
    /\ http[1][4].status = 500

(***************************************************************************)
(* C17.                                                                    *)
(***************************************************************************)
\* C17: the process is running in every reachable state; a request whose encode
\* failed is answered 500, and after it /health is answered and, while requests
\* are still to come, the next /metrics request is taken.
C17_PanicFailsOneRequest ==
    /\ alive
    /\ \A p \in {1} :
           http[p][1] = "answered" /\ http[p][3] = JoinErr =>
               /\ http[p][4].status = 500
               /\ ENABLED HealthHandler
               /\ cycles < MaxCycles => ENABLED MetricsHandler(p)

\* the first request was answered 500 after encode failed, the second was then
\* answered 200, and /health was answered after the failure
C17_Witness ==
    /\ http[1][1] = "answered"
    /\ http[1][2] = 2
    /\ http[1][5] = <<500>>
    /\ http[1][4].status = 200
    /\ health # None
    /\ Unwrap(health).after_panic

(***************************************************************************)
(* C18.                                                                    *)
(***************************************************************************)
\* the value worker p's cycle has set gauge s to, for a gauge that it has set
ValueSetBy(p, s) ==
    CASE s = "scrape_error" -> Some(IF AnyFailure(p) THEN One ELSE Zero)
      [] s = "scrape_duration_seconds" -> Some(metrics[s])
      [] OTHER -> CarriedIn(p, s)

\* C18: with two cycles on the one collection, each gauge holds, whole, the value
\* of the latest Gauge::set on it: a gauge no cycle has set holds 0.0, and a gauge
\* set by the running or last cycle of the worker that set it last holds the value
\* that cycle set it to, also when the other worker's cycle has set it too.
C18_LastWriteWinsPerSlot ==
    \A s \in Slots :
        /\ writer[s] \in {0} \cup Workers
        /\ writer[s] = 0 => metrics[s] = Zero /\ \A p \in Workers : s \notin written[p]
        /\ s \in DataSlots => metrics[s] = last_good[s]
        /\ \A p \in Workers :
               writer[s] = p /\ s \in written[p] => Some(metrics[s]) = ValueSetBy(p, s)
        /\ (\E p \in Workers : s \in written[p]) => writer[s] # 0

\* the collection holds values of two cycles at once: both cycles are under way or
\* over, both have set blocks and node_uptime_seconds, blocks was set last by the
\* second and node_uptime_seconds last by the first, to a value that is not the
\* one the second had set
C18_Witness ==
    /\ \A p \in Workers : pc[p] # "idle"
    /\ \A p \in Workers : {"blocks", "node_uptime_seconds"} \subseteq written[p]
    /\ writer["blocks"] = 2
    /\ writer["node_uptime_seconds"] = 1
    /\ Some(metrics["node_uptime_seconds"]) = CarriedIn(1, "node_uptime_seconds")
    /\ CarriedIn(1, "node_uptime_seconds") # CarriedIn(2, "node_uptime_seconds")

(***************************************************************************)
(* C19.                                                                    *)
(***************************************************************************)
\* the names of the samples of an exposition
NamesOf(body) == {sample[1] : sample \in body}

\* C19: in every reachable state the registry is as new built it: it holds one
\* name per gauge field, no two fields share a name, the collection has exactly
\* these gauges, and every exposition given has exactly these names.
C19_SlotsFixed ==
    /\ registry = NewRegistry
    /\ registry[1] = "ok"
    /\ DOMAIN GaugeName = Slots
    /\ registry[2] = {GaugeName[s] : s \in Slots}
    /\ \A s, t \in Slots : GaugeName[s] = GaugeName[t] => s = t
    /\ Cardinality(registry[2]) = Len(RegistrationOrder)
    /\ DOMAIN metrics = Slots
    /\ \A p \in {1} :
           http[p][1] = "answered" /\ http[p][4].status = 200 =>
               NamesOf(http[p][4].body) = registry[2]

\* a second request has been answered, after a cycle with failures and a cycle
\* without, and the exposition has a sample for each of the names registered
C19_Witness ==
    /\ http[1][1] = "answered"
    /\ http[1][2] = 2
    /\ http[1][4].status = 200
    /\ before[1]["scrape_error"] = One
    /\ AllSucceeded(1)
    /\ Cardinality(http[1][4].body) = Cardinality(Slots)
    /\ "bitcoin_blocks" \in registry[2]

(***************************************************************************)
(* C21.                                                                    *)
(***************************************************************************)
\* the operations of NodeClient that a cycle has called
OperationsCalled(p) == {calls[p][i][1] : i \in DOMAIN calls[p]}

\* C21, as stated: a cycle in which get_blockchain_info succeeded makes 16 calls of
\* the node.
C21_AsStated ==
    \A p \in {1} :
        Completed(p) /\ Succeeded(p, <<"get_blockchain_info">>) => Len(calls[p]) = 16

\* C21, amended: a cycle in which get_blockchain_info succeeded makes 14 calls of
\* the node: each of the eleven operations of NodeClient is called,
\* estimate_smart_fee four times and each of the ten others once.
C21_FourteenCalls ==
    \A p \in {1} :
        Completed(p) /\ Succeeded(p, <<"get_blockchain_info">>) =>
            /\ Len(calls[p]) = 14
            /\ Cardinality(OperationsCalled(p)) = 11
            /\ Cardinality({i \in DOMAIN calls[p] : calls[p][i][1] = "estimate_smart_fee"}) = 4
            /\ \A name \in OperationsCalled(p) \ {"estimate_smart_fee"} :
                   Cardinality({i \in DOMAIN calls[p] : calls[p][i][1] = name}) = 1

\* a cycle without failure is over: block statistics was called, last
C21_Witness ==
    /\ Completed(1)
    /\ AllSucceeded(1)
    /\ calls[1][Len(calls[1])][1] = "get_block_stats_by_height"
    /\ "uptime" \in OperationsCalled(1)

(***************************************************************************)
(* C24.                                                                    *)
(***************************************************************************)
\* C24: after a cycle in which get_blockchain_info succeeded,
\* get_block_stats_by_height has been called exactly once, whichever of the calls
\* after get_blockchain_info failed, and if it succeeded every latest_block_* gauge
\* has been set to the value of its field.
C24_StatsDespiteFeeFailure ==
    \A p \in {1} :
        Completed(p) /\ Succeeded(p, <<"get_blockchain_info">>) =>
            /\ Cardinality({i \in DOMAIN calls[p] :
                               calls[p][i][1] = "get_block_stats_by_height"}) = 1
            /\ results[p][<<"get_block_stats_by_height">>] # NotCalled
            /\ Succeeded(p, <<"get_block_stats_by_height">>) =>
                   \A s \in BlockStatsSlots :
                       /\ s \in written[p]
                       /\ Some(metrics[s]) = CarriedIn(p, s)

\* a second cycle is over in which the fee estimates for 6 and 144 blocks failed and
\* block statistics succeeded, with values that differ from those the gauges held
C24_Witness ==
    /\ Completed(1)
    /\ FailedIn(1, FeeCall(2)) /\ FailedIn(1, FeeCall(4))
    /\ Succeeded(1, <<"get_block_stats_by_height">>)
    /\ before[1]["latest_block_txs"] # Zero
    /\ metrics["latest_block_txs"] # before[1]["latest_block_txs"]

(***************************************************************************)
(* C26.                                                                    *)
(***************************************************************************)
\* the gauges whose field is an Option in the result
OptionalSlots ==
    {"fee_estimate_2_blocks", "fee_estimate_6_blocks", "fee_estimate_12_blocks",
     "fee_estimate_144_blocks", "chain_tx_rate", "chain_tx_window_tx_count",
     "chain_tx_window_interval"}

\* C26: at every point after a call has succeeded with an optional field absent, the
\* gauge of that field holds the value it held when the cycle started and has not
\* been set, every other gauge of that call holds the value of its field, and the
\* call does not count as a failure: after a cycle in which no call failed
\* scrape_error is 0.0.
C26_AbsentFieldKeepsValue ==
    \A p \in {1} :
        /\ \A s \in DataSlots :
               FedOk(p, s) /\ CarriedIn(p, s) = None =>
                   /\ s \in OptionalSlots
                   /\ metrics[s] = before[p][s]
                   /\ s \notin written[p]
                   /\ \A t \in FedBy(SourceOf(s)) :
                          CarriedIn(p, t) # None =>
                              t \in written[p] /\ Some(metrics[t]) = CarriedIn(p, t)
        /\ Completed(p) /\ ~AnyFailure(p) => metrics["scrape_error"] = Zero

\* a second cycle is over in which no call failed; the fee estimate for 144 blocks
\* and the tx-rate window came without fee rate and rate: their gauges hold the
\* first cycle's values, chain_tx_count a new one, and scrape_error is 0.0
C26_Witness ==
    /\ Completed(1)
    /\ AllSucceeded(1)
    /\ CarriedIn(1, "fee_estimate_144_blocks") = None
    /\ CarriedIn(1, "chain_tx_rate") = None
    /\ before[1]["fee_estimate_144_blocks"] # Zero
    /\ metrics["fee_estimate_144_blocks"] = before[1]["fee_estimate_144_blocks"]
    /\ metrics["chain_tx_rate"] = before[1]["chain_tx_rate"]
    /\ before[1]["chain_tx_rate"] # Zero
    /\ metrics["chain_tx_count"] # before[1]["chain_tx_count"]
    /\ metrics["scrape_error"] = Zero

(***************************************************************************)
(* C23.                                                                    *)
(***************************************************************************)
\* the outcomes of worker p's cycle with the errors' variants erased
Outcomes(p) ==
    [c \in Calls |-> IF results[p][c][1] = "err" THEN <<"err">> ELSE results[p][c]]

\* the value of gauge s after a cycle that started from the values b and had the
\* outcomes o
EndSlot(b, o, s) ==
    IF s = "scrape_error" THEN Unwrap(Flag(\E c \in Calls : o[c] = <<"err">>))
    ELSE LET r == o[SourceOf(s)]
         IN  IF r[1] = "ok" /\ Carried(s, r[2]) # None THEN Unwrap(Carried(s, r[2]))
             ELSE b[s]

\* the sequence of invocations of a cycle that had the outcomes o
CallsOf(o) ==
    LET status == o[<<"get_blockchain_info">>]
        n == IF status[1] = "ok" THEN Len(Enumeration) ELSE Len(Enumeration) - 1
    IN  [i \in 1..n |->
            IF Enumeration[i] = <<"get_block_stats_by_height">>
            THEN <<"get_block_stats_by_height", AsU32(status[2].blocks)>>
            ELSE Enumeration[i]]

\* C23: the gauges after a cycle (scrape_duration_seconds apart) and the sequence of
\* invocations it made are functions of the values at its start, of which calls
\* failed and of the results of those that succeeded: two cycles that agree on these
\* end alike whatever variant of Error (Rpc, Prometheus, Config) each failing call
\* returned.
C23_VariantsAlike ==
    \A p \in {1} :
        Completed(p) =>
            /\ \A s \in Slots \ {"scrape_duration_seconds"} :
                   metrics[s] = EndSlot(before[p], Outcomes(p), s)
            /\ calls[p] = CallsOf(Outcomes(p))

\* a second cycle is over in which get_mempool_info failed with Error::Config and
\* the fee estimate for 2 blocks with Error::Prometheus; their gauges hold the
\* first cycle's values and scrape_error is 1.0
C23_Witness ==
    /\ Completed(1)
    /\ results[1][<<"get_mempool_info">>] = Failed("Config")
    /\ results[1][FeeCall(1)] = Failed("Prometheus")
    /\ before[1]["mempool_bytes"] # Zero
    /\ metrics["mempool_bytes"] = before[1]["mempool_bytes"]
    /\ metrics["blocks"] # before[1]["blocks"]
    /\ metrics["scrape_error"] = One

\* the same cycle with the variants the other way round and with Error::Rpc
C23_WitnessRpc ==
    /\ Completed(1)
    /\ results[1][<<"get_mempool_info">>] = Failed("Rpc")
    /\ results[1][FeeCall(1)] = Failed("Config")
    /\ before[1]["mempool_bytes"] # Zero
    /\ metrics["blocks"] # before[1]["blocks"]
    /\ metrics["scrape_error"] = One

(***************************************************************************)
(* C25.                                                                    *)
(***************************************************************************)
\* the u32 u, in limbs, is numerically equal to the integer h
U32Equals(u, h) == h >= 0 /\ h \div Limb < Limb /\ u = <<h \div Limb, h % Limb>>

\* C25, as stated: every call of get_block_stats_by_height is made in a cycle whose
\* get_blockchain_info succeeded, with a height argument numerically equal to the
\* blocks value of that result.
C25_AsStated ==
    \A p \in {1} :
        \A i \in DOMAIN calls[p] :
            calls[p][i][1] = "get_block_stats_by_height" =>
                /\ Succeeded(p, <<"get_blockchain_info">>)
                /\ U32Equals(calls[p][i][2], results[p][<<"get_blockchain_info">>][2].blocks)

(***************************************************************************)
(* C27.                                                                    *)
(***************************************************************************)
\* C27, as stated: after a cycle in which get_peer_info succeeded,
\* peers_total_bytes_sent and peers_total_bytes_received hold the sums of bytes_sent
\* and bytes_received over the records of the list.
C27_AsStated ==
    \A p \in {1} :
        Completed(p) /\ Succeeded(p, <<"get_peer_info">>) =>
            LET l == results[p][<<"get_peer_info">>][2]
            IN  /\ metrics["peers_total_bytes_sent"] =
                       <<SumOver([i \in DOMAIN l |-> l[i].bytes_sent], DOMAIN l), 1>>
                /\ metrics["peers_total_bytes_received"] =
                       <<SumOver([i \in DOMAIN l |-> l[i].bytes_received], DOMAIN l), 1>>

(***************************************************************************)
(* C29.                                                                    *)
(***************************************************************************)
\* C29: with one request at a time, the n-th request runs the n-th cycle and no
\* other; when it is answered its cycle has made all its calls and set both meta
\* gauges, and a 200 response has the samples of this cycle's duration and error
\* flag.
C29_OneCycleThenGather ==
    \A p \in {1} :
        /\ http[p][1] \in {"pending", "answered"} => http[p][2] = cycles
        /\ http[p][1] = "answered" =>
               /\ MadeIn(p) = Calls \ Suppressed(p)
               /\ calls[p] = CallsOf(Outcomes(p))
               /\ MetaSlots \subseteq written[p]
               /\ http[p][4].status = 200 =>
                      /\ <<GaugeName["scrape_error"], Unwrap(Flag(AnyFailure(p)))>>
                             \in http[p][4].body
                      /\ <<GaugeName["scrape_duration_seconds"], ToF64(clock - start[p])>>
                             \in http[p][4].body
                      /\ \A s \in DataSlots :
                             <<GaugeName[s], EndSlot(before[p], Outcomes(p), s)>>
                                 \in http[p][4].body

\* the second request was answered 200 after a cycle without failure that followed
\* a cycle with a failure: the text shows scrape_error 0.0 and this cycle's values
C29_Witness ==
    /\ http[1][1] = "answered"
    /\ http[1][2] = 2
    /\ http[1][4].status = 200
    /\ before[1]["scrape_error"] = One
    /\ AllSucceeded(1)
    /\ <<GaugeName["scrape_error"], Zero>> \in http[1][4].body
    /\ <<GaugeName["scrape_duration_seconds"], ToF64(Len(Enumeration))>> \in http[1][4].body

(***************************************************************************)
(* C22.                                                                    *)
(***************************************************************************)
\* the gauges after the arms of the first k calls of collect have run in collect's
\* order, from the values b and with the outcomes o
RECURSIVE InOrder(_, _, _)
InOrder(b, o, k) ==
    IF k = 0 THEN b
    ELSE LET c == Enumeration[k]
             m == InOrder(b, o, k - 1)
         IN  CASE o[c][1] = "ok" -> SetAll(m, WritesOf(c, o[c][2]))
               [] o[c][1] = "err" -> SetAll(m, ErrWrites(SlotsOf(c)))
               [] OTHER -> m

\* C22: the Ok arm of each call sets gauges of that call only, no gauge belongs to
\* two calls (or two fee targets) and none is one of the two meta gauges; and after
\* a cycle whose calls were made in any order, block statistics after
\* get_blockchain_info, every gauge but scrape_duration_seconds holds the value that
\* collect's own order leaves for the same outcomes.
C22_OrderIrrelevant ==
    /\ \A c \in Calls :
           /\ DOMAIN WritesOf(c, ResultOf(node, c)) \subseteq SlotsOf(c)
           /\ SlotsOf(c) \cap MetaSlots = {}
           /\ \A d \in Calls \ {c} : SlotsOf(c) \cap SlotsOf(d) = {}
    /\ \A p \in {1} :
           Completed(p) =>
               /\ metrics["scrape_error"] = Unwrap(Flag(AnyFailure(p)))
               /\ \A s \in DataSlots :
                      metrics[s] = InOrder(before[p], Outcomes(p), Len(Enumeration))[s]

\* a cycle is over in which some call was made out of its turn and get_peer_info
\* failed: its gauges hold the values from before, those of the other calls the
\* values returned
C22_Witness ==
    /\ Completed(1)
    /\ calls[1] = OutOfTurn
    /\ FailedIn(1, <<"get_peer_info">>)
    /\ metrics["peer_count"] = before[1]["peer_count"]
    /\ metrics["blocks"] = <<node.blockchain_info.blocks, 1>>
    /\ metrics["latest_block_txs"] # Zero
    /\ metrics["scrape_error"] = One

(***************************************************************************)
(* C28.                                                                    *)
(***************************************************************************)
\* the scrape_error sample of an exposition
ErrorSample(v) == <<GaugeName["scrape_error"], v>>

\* C28: with two overlapping cycles, had_error of each is raised by the failures of
\* its own calls only; scrape_error holds the flag of the cycle that set it last;
\* and the text of a 200 response shows the flag of the request's own cycle or of
\* the other cycle, if that one has set scrape_error.
C28_FlagLocalLastWriteWins ==
    /\ \A p \in Workers : had_error[p] = AnyFailure(p)
    /\ \A p \in Workers :
           writer["scrape_error"] = p /\ "scrape_error" \in written[p] =>
               metrics["scrape_error"] = Unwrap(Flag(AnyFailure(p)))
    /\ \A p \in Workers :
           http[p][1] = "answered" /\ http[p][4].status = 200 =>
               \/ ErrorSample(Unwrap(Flag(AnyFailure(p)))) \in http[p][4].body
               \/ \E q \in Workers \ {p} :
                      /\ "scrape_error" \in written[q]
                      /\ ErrorSample(Unwrap(Flag(AnyFailure(q)))) \in http[p][4].body

\* the first request's cycle had a failure and set scrape_error to 1.0, the second
\* request's cycle had none and set it to 0.0 after that, and the text returned for
\* the first request shows scrape_error 0.0
C28_Witness ==
    /\ http[1][1] = "answered"
    /\ http[1][4].status = 200
    /\ AnyFailure(1)
    /\ "scrape_error" \in written[1]
    /\ ~AnyFailure(2)
    /\ "scrape_error" \in written[2]
    /\ writer["scrape_error"] = 2
    /\ ErrorSample(Zero) \in http[1][4].body
    /\ ErrorSample(One) \notin http[1][4].body

=============================================================================
